---- MODULE Spec2Model ----
(***************************************************************************)
(* labellint: the schema validator (formats.py), the rule registry         *)
(* (rules.py) and the scan engine (core.py) as one state machine.          *)
(*                                                                         *)
(* Python strings that the program orders, extends or tests for a prefix   *)
(* (function names, result keys) are sequences of code points, so that     *)
(* sorting and key construction are computed as Python computes them.      *)
(* Strings that are only carried around (finding texts, field names) are   *)
(* TLA+ strings.  JSON numbers are integers.                               *)
(***************************************************************************)
EXTENDS Integers, Sequences, FiniteSets, TLC

VARIABLES
    module,          \* the namespace of labellint.rules: a set of members
    pc,              \* position of the scan in run_scan / parse_coco
    source,          \* the file the scan reads: access outcome and content
    stages,          \* the stages parse_coco has entered, in order
    data,            \* run_scan's `data`: the validated COCOData, or NoData
    all_rules,       \* run_scan's `all_rules`
    idx,             \* number of rules the loop of run_scan has finished
    results,         \* run_scan's `results` dict, in insertion order
    total_findings,  \* run_scan's `total_findings`
    calls,           \* names of the rule functions invoked so far, in order
    outcome,         \* what run_scan gave its caller: a ScanResult or an exception
    previous,        \* how the scan before this one ended in this process
    command          \* the scan command of the CLI: its options and how it ended

vars == <<module, pc, source, stages, data, all_rules, idx, results,
          total_findings, calls, outcome, previous, command>>

(***************************************************************************)
(* Bounds of the model.                                                    *)
(***************************************************************************)
MaxRules == 3        \* rule functions defined in the rules module
MaxFaults == 1       \* schema faults planted in one input document
MaxAnnotations == 2  \* annotations of a document the rules are run against
MaxImages == 2       \* images of a document of the relation family
MaxCategories == 3   \* categories of a document of the category family
MaxBoxes == 4        \* boxes of a document of the ratio family

(***************************************************************************)
(* Strings as sequences of code points.                                    *)
(***************************************************************************)
\* "check_"
CheckPrefix == <<99, 104, 101, 99, 107, 95>>

\* "_execution_error"
ExecutionErrorSuffix ==
    <<95, 101, 120, 101, 99, 117, 116, 105, 111, 110, 95, 101, 114, 114, 111, 114>>

\* str.startswith
StartsWith(s, p) ==
    /\ Len(p) <= Len(s)
    /\ \A i \in 1..Len(p) : s[i] = p[i]

Min2(a, b) == IF a <= b THEN a ELSE b

\* Python's str < str: by code point, a proper prefix is smaller.
StrLess(a, b) ==
    \/ \E i \in 1..Min2(Len(a), Len(b)) :
          /\ a[i] < b[i]
          /\ \A j \in 1..(i - 1) : a[j] = b[j]
    \/ /\ Len(a) < Len(b)
       /\ \A j \in 1..Len(a) : a[j] = b[j]

StrLessEq(a, b) == a = b \/ StrLess(a, b)

(***************************************************************************)
(* JSON values, as json.loads returns them: a tag and a payload.           *)
(***************************************************************************)
JNum(n) == [k |-> "num", v |-> n]

\* float('inf'): what json.loads returns for the literal Infinity and for a
\* number beyond the range of a float (1e999).  It is a number greater than
\* every other number of the model.
Infinity == 1000000
JStr(s) == [k |-> "str", v |-> s]
JArr(q) == [k |-> "arr", v |-> q]
JObj(f) == [k |-> "obj", v |-> f]
JNull == [k |-> "null", v |-> 0]

IsNum(x) == x.k = "num"
IsStr(x) == x.k = "str"
IsArr(x) == x.k = "arr"
IsObj(x) == x.k = "obj"
IsNull(x) == x.k = "null"

(***************************************************************************)
(* Pydantic validation.  Every validator returns the sequence of errors    *)
(* of its input, empty when the input is valid; an error is the location   *)
(* of the offending value and the kind of the failure.                     *)
(***************************************************************************)
LKey(name) == [k |-> "key", v |-> name]
LIdx(i) == [k |-> "idx", v |-> i]

Err(loc, type) == [loc |-> loc, type |-> type]

\* A required field: missing, or the errors of its value.
Required(f, name, loc, errs) ==
    IF name \notin DOMAIN f THEN <<Err(loc \o <<LKey(name)>>, "missing")>> ELSE errs

\* A field with a default: absent is valid.
Defaulted(f, name, errs) ==
    IF name \notin DOMAIN f THEN <<>> ELSE errs

IntErrors(x, loc) ==
    IF ~IsNum(x) THEN <<Err(loc, "int_type")>>
    ELSE IF x.v = Infinity THEN <<Err(loc, "finite_number")>> ELSE <<>>

FloatErrors(x, loc) == IF IsNum(x) THEN <<>> ELSE <<Err(loc, "float_type")>>

StrErrors(x, loc) == IF IsStr(x) THEN <<>> ELSE <<Err(loc, "string_type")>>

\* Optional[int], Optional[str]
OptIntErrors(x, loc) == IF IsNull(x) THEN <<>> ELSE IntErrors(x, loc)

OptStrErrors(x, loc) == IF IsNull(x) THEN <<>> ELSE StrErrors(x, loc)

\* int = Field(gt=0)
PositiveIntErrors(x, loc) ==
    IF IntErrors(x, loc) # <<>> THEN IntErrors(x, loc)
    ELSE IF x.v > 0 THEN <<>> ELSE <<Err(loc, "greater_than")>>

\* float = Field(ge=0.0)
NonNegativeFloatErrors(x, loc) ==
    IF ~IsNum(x) THEN <<Err(loc, "float_type")>>
    ELSE IF x.v >= 0 THEN <<>> ELSE <<Err(loc, "greater_than_equal")>>

\* int = Field(ge=0, le=1)
IsCrowdErrors(x, loc) ==
    IF IntErrors(x, loc) # <<>> THEN IntErrors(x, loc)
    ELSE IF ~(x.v >= 0) THEN <<Err(loc, "greater_than_equal")>>
    ELSE IF ~(x.v <= 1) THEN <<Err(loc, "less_than_equal")>>
    ELSE <<>>

\* extra="forbid": one error for each key the model does not declare.
RECURSIVE ExtraErrorsOf(_, _)
ExtraErrorsOf(keys, loc) ==
    IF keys = {} THEN <<>>
    ELSE LET name == CHOOSE n \in keys : TRUE
         IN  <<Err(loc \o <<LKey(name)>>, "extra_forbidden")>>
                 \o ExtraErrorsOf(keys \ {name}, loc)

\* extra="ignore": undeclared keys are dropped without an error.
ExtraErrors_Ignored(f, declared, loc) == <<>>

ExtraErrors(f, declared, loc) == ExtraErrorsOf(DOMAIN f \ declared, loc)

\* The errors of the items of a list, each under its index (from 0).
RECURSIVE ItemErrors(_, _, _, _)
ItemErrors(q, i, loc, kind) ==
    IF i > Len(q) THEN <<>>
    ELSE (CASE kind = "float" -> FloatErrors(q[i], loc \o <<LIdx(i - 1)>>)
            [] OTHER -> <<>>)
         \o ItemErrors(q, i + 1, loc, kind)

\* The field validator testing the width alone.
bbox_must_have_positive_dimensions_WidthOnly(v) ==
    LET w == v[3].v
    IN  IF w < 0 THEN "ValueError" ELSE "ok"

\* bbox_must_have_positive_dimensions
bbox_must_have_positive_dimensions(v) ==
    LET w == v[3].v
        h == v[4].v
    IN  IF w < 0 \/ h < 0 THEN "ValueError" ELSE "ok"

\* bbox: List[float] = Field(min_length=4, max_length=4), then the field
\* validator, which runs only on a list that passed the field's own checks.
BboxErrors(x, loc) ==
    IF ~IsArr(x) THEN <<Err(loc, "list_type")>>
    ELSE IF Len(x.v) > 4 THEN <<Err(loc, "too_long")>>
    ELSE IF ItemErrors(x.v, 1, loc, "float") # <<>> THEN ItemErrors(x.v, 1, loc, "float")
    ELSE IF Len(x.v) < 4 THEN <<Err(loc, "too_short")>>
    ELSE IF bbox_must_have_positive_dimensions(x.v) # "ok" THEN <<Err(loc, "value_error")>>
    ELSE <<>>

\* The member of a Union a value was tried against, as pydantic names it.
LTag(name) == [k |-> "tag", v |-> name]

\* segmentation: Union[List[Any], Dict[str, Any]].  A value that fits no
\* member has one error for each member, at the field's location followed by
\* the member.
SegmentationErrors(x, loc) ==
    IF IsArr(x) \/ IsObj(x) THEN <<>>
    ELSE <<Err(loc \o <<LTag("list[any]")>>, "list_type"),
           Err(loc \o <<LTag("dict[str,any]")>>, "dict_type")>>

COCOInfoFields == {"year", "version", "description", "contributor", "url", "date_created"}
COCOLicenseFields == {"id", "name", "url"}
COCOImageFields ==
    {"id", "width", "height", "file_name", "license", "flickr_url", "coco_url", "date_captured"}
COCOAnnotationFields ==
    {"id", "image_id", "category_id", "segmentation", "area", "bbox", "iscrowd"}
COCOCategoryFields == {"id", "name", "supercategory"}
COCODataFields == {"info", "licenses", "images", "annotations", "categories"}

\* COCOInfo: extra="allow"
COCOInfoErrors(x, loc) ==
    IF ~IsObj(x) THEN <<Err(loc, "model_type")>>
    ELSE LET f == x.v
             at(n) == loc \o <<LKey(n)>>
         IN  Defaulted(f, "year", OptIntErrors(f["year"], at("year")))
             \o Defaulted(f, "version", OptStrErrors(f["version"], at("version")))
             \o Defaulted(f, "description", OptStrErrors(f["description"], at("description")))
             \o Defaulted(f, "contributor", OptStrErrors(f["contributor"], at("contributor")))
             \o Defaulted(f, "url", OptStrErrors(f["url"], at("url")))
             \o Defaulted(f, "date_created", OptStrErrors(f["date_created"], at("date_created")))

\* COCOLicense: extra="forbid"
COCOLicenseErrors(x, loc) ==
    IF ~IsObj(x) THEN <<Err(loc, "model_type")>>
    ELSE LET f == x.v
             at(n) == loc \o <<LKey(n)>>
         IN  Required(f, "id", loc, IntErrors(f["id"], at("id")))
             \o Required(f, "name", loc, StrErrors(f["name"], at("name")))
             \o Defaulted(f, "url", OptStrErrors(f["url"], at("url")))
             \o ExtraErrors(f, COCOLicenseFields, loc)

\* COCOImage: extra="forbid"
COCOImageErrors(x, loc) ==
    IF ~IsObj(x) THEN <<Err(loc, "model_type")>>
    ELSE LET f == x.v
             at(n) == loc \o <<LKey(n)>>
         IN  Required(f, "id", loc, IntErrors(f["id"], at("id")))
             \o Required(f, "width", loc, PositiveIntErrors(f["width"], at("width")))
             \o Required(f, "height", loc, PositiveIntErrors(f["height"], at("height")))
             \o Required(f, "file_name", loc, StrErrors(f["file_name"], at("file_name")))
             \o Defaulted(f, "license", OptIntErrors(f["license"], at("license")))
             \o Defaulted(f, "flickr_url", OptStrErrors(f["flickr_url"], at("flickr_url")))
             \o Defaulted(f, "coco_url", OptStrErrors(f["coco_url"], at("coco_url")))
             \o Defaulted(f, "date_captured", OptStrErrors(f["date_captured"], at("date_captured")))
             \o ExtraErrors(f, COCOImageFields, loc)

\* COCOAnnotation: extra="forbid"
COCOAnnotationErrors(x, loc) ==
    IF ~IsObj(x) THEN <<Err(loc, "model_type")>>
    ELSE LET f == x.v
             at(n) == loc \o <<LKey(n)>>
         IN  Required(f, "id", loc, IntErrors(f["id"], at("id")))
             \o Required(f, "image_id", loc, IntErrors(f["image_id"], at("image_id")))
             \o Required(f, "category_id", loc, IntErrors(f["category_id"], at("category_id")))
             \o Defaulted(f, "segmentation", SegmentationErrors(f["segmentation"], at("segmentation")))
             \o Required(f, "area", loc, NonNegativeFloatErrors(f["area"], at("area")))
             \o Required(f, "bbox", loc, BboxErrors(f["bbox"], at("bbox")))
             \o Required(f, "iscrowd", loc, IsCrowdErrors(f["iscrowd"], at("iscrowd")))
             \o ExtraErrors(f, COCOAnnotationFields, loc)

\* COCOCategory: extra="forbid"
COCOCategoryErrors(x, loc) ==
    IF ~IsObj(x) THEN <<Err(loc, "model_type")>>
    ELSE LET f == x.v
             at(n) == loc \o <<LKey(n)>>
         IN  Required(f, "id", loc, IntErrors(f["id"], at("id")))
             \o Required(f, "name", loc, StrErrors(f["name"], at("name")))
             \o Defaulted(f, "supercategory", OptStrErrors(f["supercategory"], at("supercategory")))
             \o ExtraErrors(f, COCOCategoryFields, loc)

ModelErrors(x, loc, model) ==
    CASE model = "COCOLicense" -> COCOLicenseErrors(x, loc)
      [] model = "COCOImage" -> COCOImageErrors(x, loc)
      [] model = "COCOAnnotation" -> COCOAnnotationErrors(x, loc)
      [] model = "COCOCategory" -> COCOCategoryErrors(x, loc)

\* List[<model>]
RECURSIVE ModelItemErrors(_, _, _, _)
ModelItemErrors(q, i, loc, model) ==
    IF i > Len(q) THEN <<>>
    ELSE ModelErrors(q[i], loc \o <<LIdx(i - 1)>>, model)
         \o ModelItemErrors(q, i + 1, loc, model)

ModelListErrors(x, loc, model) ==
    IF ~IsArr(x) THEN <<Err(loc, "list_type")>>
    ELSE ModelItemErrors(x.v, 1, loc, model)

\* COCOData: extra="forbid"
COCODataErrors(x) ==
    IF ~IsObj(x) THEN <<Err(<<>>, "model_type")>>
    ELSE LET f == x.v
             at(n) == <<LKey(n)>>
         IN  Required(f, "info", <<>>, COCOInfoErrors(f["info"], at("info")))
             \o Required(f, "licenses", <<>>,
                         ModelListErrors(f["licenses"], at("licenses"), "COCOLicense"))
             \o Required(f, "images", <<>>,
                         ModelListErrors(f["images"], at("images"), "COCOImage"))
             \o Required(f, "annotations", <<>>,
                         ModelListErrors(f["annotations"], at("annotations"), "COCOAnnotation"))
             \o Required(f, "categories", <<>>,
                         ModelListErrors(f["categories"], at("categories"), "COCOCategory"))
             \o ExtraErrors(f, COCODataFields, <<>>)

(***************************************************************************)
(* The validated document: what COCOData.model_validate builds from an     *)
(* input without errors.  Declared fields that are absent take their       *)
(* default; COCOInfo keeps the fields it does not declare.                 *)
(***************************************************************************)
Opt(f, name) == IF name \in DOMAIN f THEN f[name] ELSE JNull

BuildInfo(x) ==
    LET f == x.v
    IN  [year |-> Opt(f, "year"), version |-> Opt(f, "version"),
         description |-> Opt(f, "description"), contributor |-> Opt(f, "contributor"),
         url |-> Opt(f, "url"), date_created |-> Opt(f, "date_created"),
         extra |-> [n \in DOMAIN f \ COCOInfoFields |-> f[n]]]

BuildLicense(x) ==
    LET f == x.v
    IN  [id |-> f["id"].v, name |-> f["name"].v, url |-> Opt(f, "url")]

BuildImage(x) ==
    LET f == x.v
    IN  [id |-> f["id"].v, width |-> f["width"].v, height |-> f["height"].v,
         file_name |-> f["file_name"].v, license |-> Opt(f, "license"),
         flickr_url |-> Opt(f, "flickr_url"), coco_url |-> Opt(f, "coco_url"),
         date_captured |-> Opt(f, "date_captured")]

BuildAnnotation(x) ==
    LET f == x.v
    IN  [id |-> f["id"].v, image_id |-> f["image_id"].v,
         category_id |-> f["category_id"].v,
         segmentation |-> IF "segmentation" \in DOMAIN f THEN f["segmentation"]
                          ELSE JArr(<<>>),
         area |-> f["area"].v,
         bbox |-> [i \in 1..Len(f["bbox"].v) |-> f["bbox"].v[i].v],
         iscrowd |-> f["iscrowd"].v]

BuildCategory(x) ==
    LET f == x.v
    IN  [id |-> f["id"].v, name |-> f["name"].v,
         supercategory |-> Opt(f, "supercategory")]

BuildCOCOData(x) ==
    LET f == x.v
    IN  [info |-> BuildInfo(f["info"]),
         licenses |-> [i \in 1..Len(f["licenses"].v) |-> BuildLicense(f["licenses"].v[i])],
         images |-> [i \in 1..Len(f["images"].v) |-> BuildImage(f["images"].v[i])],
         annotations |->
             [i \in 1..Len(f["annotations"].v) |-> BuildAnnotation(f["annotations"].v[i])],
         categories |->
             [i \in 1..Len(f["categories"].v) |-> BuildCategory(f["categories"].v[i])]]

NoData == [none |-> TRUE]

\* str(component) of a component of an error location.
LocStr(component) ==
    IF component.k = "idx" THEN ToString(component.v) ELSE component.v

\* sep.join(parts)
RECURSIVE Join(_, _)
Join(sep, parts) ==
    IF parts = <<>> THEN ""
    ELSE IF Len(parts) = 1 THEN parts[1]
    ELSE parts[1] \o sep \o Join(sep, Tail(parts))

\* The msg of a pydantic error.
Msg(type) ==
    CASE type = "missing" -> "Field required"
      [] type = "int_type" -> "Input should be a valid integer"
      [] type = "finite_number" -> "Input should be a finite number"
      [] type = "float_type" -> "Input should be a valid number"
      [] type = "string_type" -> "Input should be a valid string"
      [] type = "list_type" -> "Input should be a valid list"
      [] type = "dict_type" -> "Input should be a valid dictionary"
      [] type = "model_type" ->
             "Input should be a valid dictionary or object to extract fields from"
      [] type = "greater_than" -> "Input should be greater than 0"
      [] type = "greater_than_equal" -> "Input should be greater than or equal to 0"
      [] type = "less_than_equal" -> "Input should be less than or equal to 1"
      [] type = "too_short" -> "List should have at least 4 items after validation"
      [] type = "too_long" -> "List should have at most 4 items after validation"
      [] type = "extra_forbidden" -> "Extra inputs are not permitted"
      [] type = "value_error" ->
             "Value error, Bounding box width and height must be non-negative."

\* The summary made of the last error of the list.
error_summary_LastError(errors) ==
    LET first_error == errors[Len(errors)]
        loc_str == Join(" -> ", [i \in 1..Len(first_error.loc) |-> LocStr(first_error.loc[i])])
        msg == Msg(first_error.type)
    IN  <<"Data validation failed at '", loc_str, "': ", msg>>

\* parse_coco's error_summary, the pieces of its f-string: of e.errors(), the
\* first error alone is reported.
error_summary(errors) ==
    LET first_error == errors[1]
        loc_str == Join(" -> ", [i \in 1..Len(first_error.loc) |-> LocStr(first_error.loc[i])])
        msg == Msg(first_error.type)
    IN  <<"Data validation failed at '", loc_str, "': ", msg>>

\* COCOData.model_validate: the document, or a ValidationError with its errors.
model_validate(x) ==
    LET errs == COCODataErrors(x)
    IN  IF errs = <<>>
        THEN [ok |-> TRUE, value |-> BuildCOCOData(x), errors |-> <<>>]
        ELSE [ok |-> FALSE, value |-> NoData, errors |-> errs]

(***************************************************************************)
(* COCOData.model_dump_json: the JSON text of a document, as the tree      *)
(* json.loads makes of it.  Every declared field is written, None as null; *)
(* COCOInfo writes the fields it does not declare too; a float that is not *)
(* finite is written as null.                                              *)
(***************************************************************************)
DumpFloat(x) == IF x = Infinity THEN JNull ELSE JNum(x)

DumpInfo(info) ==
    JObj([n \in COCOInfoFields \cup DOMAIN info.extra |->
             IF n \in COCOInfoFields THEN info[n] ELSE info.extra[n]])

DumpLicense(l) == JObj([id |-> JNum(l.id), name |-> JStr(l.name), url |-> l.url])

DumpImage(im) ==
    JObj([id |-> JNum(im.id), width |-> JNum(im.width), height |-> JNum(im.height),
          file_name |-> JStr(im.file_name), license |-> im.license,
          flickr_url |-> im.flickr_url, coco_url |-> im.coco_url,
          date_captured |-> im.date_captured])

DumpAnnotation(an) ==
    JObj([id |-> JNum(an.id), image_id |-> JNum(an.image_id),
          category_id |-> JNum(an.category_id), segmentation |-> an.segmentation,
          area |-> DumpFloat(an.area),
          bbox |-> JArr([i \in 1..Len(an.bbox) |-> DumpFloat(an.bbox[i])]),
          iscrowd |-> JNum(an.iscrowd)])

DumpCategory(c) ==
    JObj([id |-> JNum(c.id), name |-> JStr(c.name), supercategory |-> c.supercategory])

model_dump_json(d) ==
    JObj([info |-> DumpInfo(d.info),
          licenses |-> JArr([i \in 1..Len(d.licenses) |-> DumpLicense(d.licenses[i])]),
          images |-> JArr([i \in 1..Len(d.images) |-> DumpImage(d.images[i])]),
          annotations |->
              JArr([i \in 1..Len(d.annotations) |-> DumpAnnotation(d.annotations[i])]),
          categories |->
              JArr([i \in 1..Len(d.categories) |-> DumpCategory(d.categories[i])])])

(***************************************************************************)
(* The input files: a well-formed COCO document with up to MaxFaults       *)
(* edits applied to it, or a text that is not JSON; and whether the file   *)
(* can be read at all.                                                     *)
(***************************************************************************)
BaseDoc ==
    JObj([info |-> JObj([year |-> JNum(2024)]),
          licenses |-> JArr(<<JObj([id |-> JNum(1), name |-> JStr("L")])>>),
          images |-> JArr(<<JObj([id |-> JNum(1), width |-> JNum(8), height |-> JNum(6),
                                  file_name |-> JStr("a.jpg")])>>),
          annotations |->
              JArr(<<JObj([id |-> JNum(1), image_id |-> JNum(1), category_id |-> JNum(1),
                           area |-> JNum(4), iscrowd |-> JNum(0),
                           bbox |-> JArr(<<JNum(0), JNum(0), JNum(2), JNum(2)>>)])>>),
          categories |-> JArr(<<JObj([id |-> JNum(1), name |-> JStr("car")])>>)])

Set(at, field, val) == [at |-> at, op |-> "set", field |-> field, val |-> val]
Del(at, field) == [at |-> at, op |-> "del", field |-> field, val |-> JNull]

Edits ==
    << Set("top", "unexpected_top_level_key", JStr("some_value")),
       Del("top", "images"),
       Set("top", "images", JStr("this is the wrong type")),
       Set("top", "annotations", JArr(<<>>)),
       Set("info", "note", JStr("kept")),
       Set("info", "year", JStr("abc")),
       Set("licenses", "extra", JNum(1)),
       Set("images", "width", JNum(0)),
       Set("images", "height", JNum(0)),
       Set("images", "extra", JNum(1)),
       Del("images", "file_name"),
       Set("annotations", "bbox", JArr(<<JNum(0), JNum(0), JNum(-1), JNum(2)>>)),
       Set("annotations", "bbox", JArr(<<JNum(0), JNum(0), JNum(2), JNum(-1)>>)),
       Set("annotations", "bbox", JArr(<<JNum(0), JNum(0), JNum(0), JNum(0)>>)),
       Set("annotations", "bbox", JArr(<<JNum(0), JNum(0), JNum(2)>>)),
       Set("annotations", "bbox", JArr(<<JNum(0), JNum(0), JNum(2), JNum(2), JNum(2)>>)),
       Set("annotations", "area", JNum(-1)),
       Set("annotations", "area", JNum(Infinity)),
       Set("annotations", "segmentation", JStr("rle")),
       Set("annotations", "iscrowd", JNum(2)),
       Set("annotations", "iscrowd", JNum(-1)),
       Set("annotations", "extra", JNum(1)),
       Set("categories", "extra", JNum(1)) >>

SetField(f, name, val) ==
    [n \in DOMAIN f \cup {name} |-> IF n = name THEN val ELSE f[n]]

DelField(f, name) == [n \in DOMAIN f \ {name} |-> f[n]]

EditObj(x, e) ==
    IF ~IsObj(x) THEN x
    ELSE JObj(IF e.op = "del" THEN DelField(x.v, e.field)
              ELSE SetField(x.v, e.field, e.val))

\* An edit of a list changes the first record of the list.
ApplyEdit(doc, e) ==
    IF e.at = "top" THEN EditObj(doc, e)
    ELSE IF e.at \notin DOMAIN doc.v THEN doc
    ELSE LET t == doc.v[e.at]
         IN  IF e.at = "info" THEN JObj(SetField(doc.v, "info", EditObj(t, e)))
             ELSE IF ~IsArr(t) THEN doc
             ELSE IF t.v = <<>> THEN doc
             ELSE JObj(SetField(doc.v, e.at,
                                JArr([t.v EXCEPT ![1] = EditObj(t.v[1], e)])))

RECURSIVE ApplyEdits(_, _, _)
ApplyEdits(doc, chosen, i) ==
    IF i > Len(Edits) THEN doc
    ELSE ApplyEdits(IF i \in chosen THEN ApplyEdit(doc, Edits[i]) ELSE doc, chosen, i + 1)

RECURSIVE EditChoices(_)
EditChoices(n) ==
    IF n = 0 THEN {{}}
    ELSE LET less == EditChoices(n - 1)
         IN  less \cup {c \cup {i} : c \in less, i \in 1..Len(Edits)}

Documents == {ApplyEdits(BaseDoc, chosen, 1) : chosen \in EditChoices(MaxFaults)}

\* The text of a file: a JSON document, or a text json.loads rejects at a
\* line and a column.
Texts ==
    {[valid |-> TRUE, tree |-> d, lineno |-> 0, colno |-> 0] : d \in Documents}
    \cup {[valid |-> FALSE, tree |-> JNull, lineno |-> 1, colno |-> 2],
          [valid |-> FALSE, tree |-> JNull, lineno |-> 2, colno |-> 1]}

\* What Path.read_text does: returns the text, or raises.
Accesses == {"ok", "FileNotFoundError", "OSError", "UnicodeDecodeError"}

Sources == [access : Accesses, text : Texts]

NoSource == [access |-> "none", text |-> JNull]

(***************************************************************************)
(* The documents the rules are run against: validated documents, built as  *)
(* validation builds them.  A small document has up to MaxAnnotations      *)
(* annotations of every shape; a bulk document has the annotation counts   *)
(* at which the statistical rule changes its answer.                       *)
(***************************************************************************)
Image(id) ==
    [id |-> id, width |-> 8, height |-> 6, file_name |-> "a.jpg", license |-> JNull,
     flickr_url |-> JNull, coco_url |-> JNull, date_captured |-> JNull]

Category(id, name) == [id |-> id, name |-> name, supercategory |-> JNull]

Annotation(id, image_id, category_id, shape) ==
    [id |-> id, image_id |-> image_id, category_id |-> category_id,
     segmentation |-> shape.segmentation, area |-> shape.area, bbox |-> shape.bbox,
     iscrowd |-> 0]

Polygon == JArr(<<JArr(<<JNum(0), JNum(0), JNum(2), JNum(0), JNum(2), JNum(2)>>)>>)

RunLengthEncoding ==
    JObj([counts |-> JArr(<<JNum(3), JNum(2)>>), size |-> JArr(<<JNum(6), JNum(8)>>)])

\* A box; a box with another area declared; the same under a polygon, under a
\* run-length encoding and under an empty object.
Box == [segmentation |-> JArr(<<>>), bbox |-> <<0, 0, 2, 2>>, area |-> 4]

Shapes ==
    {Box,
     [segmentation |-> JArr(<<>>), bbox |-> <<0, 0, 2, 2>>, area |-> 2],
     [segmentation |-> Polygon, bbox |-> <<0, 0, 2, 2>>, area |-> 2],
     [segmentation |-> RunLengthEncoding, bbox |-> <<0, 0, 2, 2>>, area |-> 2],
     [segmentation |-> JObj(<<>>), bbox |-> <<0, 0, 2, 2>>, area |-> 2]}

\* Image 1 and the categories 1, 2 and 3 exist; 9 is the id of nothing.
AnnotationChoices ==
    {[image_id |-> 1, category_id |-> 1, shape |-> shape] : shape \in Shapes}
    \cup {[image_id |-> i, category_id |-> c, shape |-> Box] : i \in {1, 9}, c \in {1, 9}}

RECURSIVE ChoiceLists(_)
ChoiceLists(n) ==
    IF n = 0 THEN {<<>>}
    ELSE LET less == ChoiceLists(n - 1)
         IN  less \cup {Append(q, c) : q \in {l \in less : Len(l) = n - 1},
                                      c \in AnnotationChoices}

Document(annotations) ==
    [info |-> [year |-> JNum(2024), version |-> JNull, description |-> JNull,
               contributor |-> JNull, url |-> JNull, date_created |-> JNull,
               extra |-> <<>>],
     licenses |-> <<[id |-> 1, name |-> "L", url |-> JNull]>>,
     images |-> <<Image(1)>>,
     annotations |-> annotations,
     categories |-> <<Category(1, "car"), Category(2, "bus"), Category(3, "van")>>]

SmallDocuments ==
    {Document([i \in 1..Len(q) |->
                  Annotation(i, q[i].image_id, q[i].category_id, q[i].shape)]) :
        q \in ChoiceLists(MaxAnnotations)}

\* `total` boxes on image 1: first `rare` of category 2, then `unmatched` of
\* the category id 9, the rest of category 1.  Category 3 has none.
BulkCase(total, rare, unmatched) == [total |-> total, rare |-> rare, unmatched |-> unmatched]

BulkDocument(total, rare, unmatched) ==
    Document([i \in 1..total |->
                 Annotation(i, 1,
                            IF i <= rare THEN 2
                            ELSE IF i <= rare + unmatched THEN 9 ELSE 1,
                            Box)])

\* Around the 50 annotations below which the rule is silent, around the
\* threshold of 10, and beyond 10000 annotations, where the threshold is
\* 0.1% of the total.
BulkCases ==
    {BulkCase(49, 9, 0), BulkCase(49, 1, 3),
     BulkCase(50, 9, 0), BulkCase(50, 10, 0), BulkCase(50, 9, 3), BulkCase(50, 10, 3),
     BulkCase(53, 9, 3),
     BulkCase(11000, 10, 0), BulkCase(11000, 11, 3),
     BulkCase(11001, 11, 3), BulkCase(11001, 12, 0)}

BulkDocuments == {BulkDocument(c.total, c.rare, c.unmatched) : c \in BulkCases}

RuleDocuments == SmallDocuments \cup BulkDocuments

\* The names "car", "Car", "CAR" and "bus", as their code points.
Str ==
    [car |-> <<99, 97, 114>>, Car |-> <<67, 97, 114>>,
     CAR |-> <<67, 65, 82>>, bus |-> <<98, 117, 115>>]

\* The documents the whole module of rules is run against, in four families.
\* Relation: up to MaxImages images of the ids 1 and 2, and up to
\* MaxAnnotations boxes on the images 1, 2 and 9.
\* Category: up to MaxCategories categories of the ids 1 and 2 under the names
\* of Str, and one box of category 1.
\* Geometry: image 1, of 8 by 6, and up to MaxAnnotations boxes on image 1 or
\* on the missing image 9.  The boxes are inside the image, end on its right
\* and bottom borders or cross one of its four borders; have no width, no
\* height or neither; or declare an area at the edge of the tolerance (999
\* against 1000 declared is within 0.1% of the declared area, 1000 against 999
\* declared is not) or the area 0, over a box of area 0 and over one of area 4.
\* Ratio: up to MaxBoxes boxes of the ratios 1, 4 and 1/2 and boxes without
\* width; and the documents of up to MaxAnnotations boxes without height or of
\* a width beyond the range of a float, which json.loads reads as inf.
LintDocuments ==
    LET DocumentOf(images, annotations, categories) ==
            [Document(annotations) EXCEPT !.images = images, !.categories = categories]
        SeqsUpTo(choices, n) == UNION {[1..k -> choices] : k \in 0..n}
        BoxDeclaring(x, y, w, h, area) ==
            [segmentation |-> JArr(<<>>), bbox |-> <<x, y, w, h>>, area |-> area]
        BoxAt(x, y, w, h) == BoxDeclaring(x, y, w, h, w * h)
        BorderShapes ==
            {BoxAt(0, 0, 2, 2), BoxAt(6, 4, 2, 2),
             BoxAt(7, 0, 2, 2), BoxAt(0, 5, 2, 2), BoxAt(-1, 0, 2, 2), BoxAt(0, -1, 2, 2)}
        ZeroShapes == {BoxAt(1, 1, 0, 2), BoxAt(1, 1, 2, 0), BoxAt(1, 1, 0, 0)}
        AreaShapes ==
            {BoxDeclaring(0, 0, 27, 37, 1000), BoxDeclaring(0, 0, 25, 40, 999),
             BoxDeclaring(0, 0, 0, 2, 0), BoxDeclaring(0, 0, 2, 2, 0),
             BoxDeclaring(0, 0, 0, 2, 4)}
        GeometryChoices ==
            {[image_id |-> 1, shape |-> shape] :
                shape \in BorderShapes \cup ZeroShapes \cup AreaShapes}
            \cup {[image_id |-> 9, shape |-> shape] :
                     shape \in {BoxAt(0, 0, 2, 2), BoxAt(7, 0, 2, 2), BoxAt(1, 1, 0, 2)}}
        CategoryChoices ==
            {[id |-> id, name |-> name] :
                id \in {1, 2}, name \in {Str.car, Str.Car, Str.CAR, Str.bus}}
        RatioShapes ==
            {BoxAt(0, 0, 2, 2), BoxAt(0, 0, 4, 1), BoxAt(0, 0, 1, 2), BoxAt(0, 0, 0, 2)}
        InfiniteShapes == {BoxDeclaring(0, 0, Infinity, 1, 4), BoxAt(0, 0, 2, 0)}
        RelationDocuments ==
            {DocumentOf([i \in 1..Len(ims) |-> Image(ims[i])],
                        [i \in 1..Len(ans) |-> Annotation(i, ans[i], 1, Box)],
                        <<Category(1, Str.car)>>) :
                ims \in SeqsUpTo({1, 2}, MaxImages),
                ans \in SeqsUpTo({1, 2, 9}, MaxAnnotations)}
        CategoryDocuments ==
            {DocumentOf(<<Image(1)>>, <<Annotation(1, 1, 1, Box)>>,
                        [i \in 1..Len(q) |-> Category(q[i].id, q[i].name)]) :
                q \in SeqsUpTo(CategoryChoices, MaxCategories)}
        GeometryDocuments ==
            {DocumentOf(<<Image(1)>>,
                        [i \in 1..Len(q) |-> Annotation(i, q[i].image_id, 1, q[i].shape)],
                        <<Category(1, Str.car)>>) :
                q \in SeqsUpTo(GeometryChoices, MaxAnnotations)}
        RatioDocuments ==
            {DocumentOf(<<Image(1)>>, [i \in 1..Len(q) |-> Annotation(i, 1, 1, q[i])],
                        <<Category(1, Str.car)>>) :
                q \in SeqsUpTo(RatioShapes, MaxBoxes)
                      \cup SeqsUpTo(InfiniteShapes, MaxAnnotations)}
    IN  RelationDocuments \cup GeometryDocuments \cup CategoryDocuments \cup RatioDocuments

\* json.dumps(d.model_dump()): the text of a document as json.dumps writes
\* it, a float that is not finite as the literal json.loads reads back.
json_dumps(d) ==
    LET annotation(an) ==
            JObj([DumpAnnotation(an).v EXCEPT
                      !.area = JNum(an.area),
                      !.bbox = JArr([i \in 1..Len(an.bbox) |-> JNum(an.bbox[i])])])
    IN  JObj([model_dump_json(d).v EXCEPT
                  !.annotations =
                      JArr([i \in 1..Len(d.annotations) |-> annotation(d.annotations[i])])])

\* A file holding the text of a document.
SourceOf(d) ==
    [access |-> "ok",
     text |-> [valid |-> TRUE, tree |-> json_dumps(d), lineno |-> 0, colno |-> 0]]

(***************************************************************************)
(* The rules module.  A member is a name bound to an object; a function    *)
(* object carries its body: what calling it on a document does.  Every     *)
(* function of the module is a plain def, so its __name__ is the name it   *)
(* is bound to.                                                            *)
(***************************************************************************)
Member(name, isfunction, body) ==
    [name |-> name, isfunction |-> isfunction, body |-> body]

\* "get_all_rules", a function of the module that is no rule
Name_get_all_rules == <<103, 101, 116, 95, 97, 108, 108, 95, 114, 117, 108, 101, 115>>
\* "Counter", a class the module imports
Name_Counter == <<67, 111, 117, 110, 116, 101, 114>>
\* "check_aa", a name with the rule prefix bound to something that is no function
Name_check_aa == CheckPrefix \o <<97, 97>>

OtherMembers ==
    {Member(Name_get_all_rules, TRUE, "other"),
     Member(Name_Counter, FALSE, "other"),
     Member(Name_check_aa, FALSE, "other")}

\* "check_a", "check_a_b", "check_b", "check_a_execution_error"
RuleNames ==
    {CheckPrefix \o <<97>>,
     CheckPrefix \o <<97, 95, 98>>,
     CheckPrefix \o <<98>>,
     CheckPrefix \o <<97>> \o ExecutionErrorSuffix}

\* What a rule function does when called: raises, or returns its findings.
RuleBodies == {"raise", "empty", "two"}

RECURSIVE RuleSets(_)
RuleSets(n) ==
    IF n = 0 THEN {{}}
    ELSE LET less == RuleSets(n - 1)
         IN  less \cup
             {rs \cup {Member(name, TRUE, body)} :
                 rs \in less,
                 name \in RuleNames,
                 body \in RuleBodies}

DistinctNames(ms) == \A m1, m2 \in ms : m1.name = m2.name => m1 = m2

Modules == {OtherMembers \cup rs : rs \in {r \in RuleSets(MaxRules) : DistinctNames(r)}}

(***************************************************************************)
(* rules.get_all_rules                                                     *)
(***************************************************************************)
\* inspect.getmembers: the members as a list sorted by name.
RECURSIVE getmembers(_)
getmembers(mod) ==
    IF mod = {} THEN <<>>
    ELSE LET first == CHOOSE m \in mod : \A o \in mod : StrLessEq(m.name, o.name)
         IN  <<first>> \o getmembers(mod \ {first})

\* The filter without inspect.isfunction.
IsRule_PrefixOnly(m) == StartsWith(m.name, CheckPrefix)

IsRule(m) == m.isfunction /\ StartsWith(m.name, CheckPrefix)

\* The sort with reverse=True.
RECURSIVE InsertByName_Descending(_, _)
InsertByName_Descending(sorted, f) ==
    IF sorted = <<>> THEN <<f>>
    ELSE IF StrLess(Head(sorted).name, f.name) THEN <<f>> \o sorted
    ELSE <<Head(sorted)>> \o InsertByName_Descending(Tail(sorted), f)

\* list.sort(key=lambda f: f.__name__): stable, ascending.
RECURSIVE InsertByName(_, _)
InsertByName(sorted, f) ==
    IF sorted = <<>> THEN <<f>>
    ELSE IF StrLess(f.name, Head(sorted).name) THEN <<f>> \o sorted
    ELSE <<Head(sorted)>> \o InsertByName(Tail(sorted), f)

RECURSIVE SortByName(_)
SortByName(fs) ==
    IF fs = <<>> THEN <<>>
    ELSE InsertByName(SortByName(SubSeq(fs, 1, Len(fs) - 1)), fs[Len(fs)])

get_all_rules(mod) ==
    LET rule_functions == SelectSeq(getmembers(mod), IsRule)
    IN  SortByName(rule_functions)

(***************************************************************************)
(* The rules of labellint.rules.  A rule is a function from the validated  *)
(* document to its list of findings; a finding is the text of its f-string *)
(* with the values it prints.  The rules walk lists with comprehensions,   *)
(* so a document of many thousands of annotations is within their reach.   *)
(***************************************************************************)
Abs(n) == IF n < 0 THEN -n ELSE n

\* The index of the first occurrence of v in q.
FirstIndex(q, v) == CHOOSE i \in 1..Len(q) : q[i] = v /\ \A j \in 1..(i - 1) : q[j] # v

\* The elements of a set of values of q, in the order of their first occurrence.
RECURSIVE InFirstSeenOrder(_, _)
InFirstSeenOrder(q, vals) ==
    IF vals = {} THEN <<>>
    ELSE LET v == CHOOSE x \in vals : \A y \in vals : FirstIndex(q, x) <= FirstIndex(q, y)
         IN  <<v>> \o InFirstSeenOrder(q, vals \ {v})

\* collections.Counter(q).items(): the distinct elements in the order of their
\* first occurrence, each with the number of its occurrences.
Counter(q) ==
    LET seen == InFirstSeenOrder(q, {q[i] : i \in 1..Len(q)})
    IN  [n \in 1..Len(seen) |->
            [key |-> seen[n], val |-> Cardinality({i \in 1..Len(q) : q[i] = seen[n]})]]

\* {x.id: x for x in q}.get(id): the last record of that id, or None.
NoRecord == [none |-> TRUE]

ById(q, id) ==
    IF \E i \in 1..Len(q) : q[i].id = id
    THEN q[CHOOSE i \in 1..Len(q) : q[i].id = id /\ \A j \in (i + 1)..Len(q) : q[j].id # id]
    ELSE NoRecord

check_relation_unmatched_annotations(d) ==
    LET valid_image_ids == {d.images[i].id : i \in 1..Len(d.images)}
        orphaned(ann) == ann.image_id \notin valid_image_ids
        finding(ann) ==
            [text |-> "Orphaned annotation (ID {id}) points to a missing image (ID {image_id}).",
             id |-> ann.id, image_id |-> ann.image_id]
    IN  LET found == SelectSeq(d.annotations, orphaned)
        IN  [n \in 1..Len(found) |-> finding(found[n])]

\* The rule testing category_id against the ids of the images.
check_relation_unmatched_category_AgainstImages(d) ==
    LET valid_category_ids == {d.images[i].id : i \in 1..Len(d.images)}
        unmatched(ann) == ann.category_id \notin valid_category_ids
        finding(ann) ==
            [text |-> "Annotation (ID {id}) points to a missing category (ID {category_id}).",
             id |-> ann.id, category_id |-> ann.category_id]
    IN  LET found == SelectSeq(d.annotations, unmatched)
        IN  [n \in 1..Len(found) |-> finding(found[n])]

check_relation_unmatched_category(d) ==
    LET valid_category_ids == {d.categories[i].id : i \in 1..Len(d.categories)}
        unmatched(ann) == ann.category_id \notin valid_category_ids
        finding(ann) ==
            [text |-> "Annotation (ID {id}) points to a missing category (ID {category_id}).",
             id |-> ann.id, category_id |-> ann.category_id]
    IN  LET found == SelectSeq(d.annotations, unmatched)
        IN  [n \in 1..Len(found) |-> finding(found[n])]

\* `ann.segmentation and isinstance(ann.segmentation, list) and len(ann.segmentation) > 0`
HasPolygons(segmentation) ==
    /\ IF IsArr(segmentation) THEN segmentation.v # <<>> ELSE DOMAIN segmentation.v # {}
    /\ IsArr(segmentation)
    /\ Len(segmentation.v) > 0

\* np.isclose with the tolerance taken relative to its first argument.
isclose_RelativeToFirst(a, b) ==
    IF a = Infinity \/ b = Infinity THEN a = b
    ELSE Abs(a - b) * 100000000 <= 1 + 100000 * Abs(a)

\* np.isclose(a, b, rtol=1e-3), atol at its default 1e-8:
\* |a - b| <= atol + rtol * |b|, both sides scaled by 10^8; when one of the
\* two is infinite, a == b.
isclose(a, b) ==
    IF a = Infinity \/ b = Infinity THEN a = b
    ELSE Abs(a - b) * 100000000 <= 1 + 100000 * Abs(b)

check_attribute_area_bbox_mismatch(d) ==
    LET bbox_area(ann) == ann.bbox[3] * ann.bbox[4]
        mismatched(ann) ==
            /\ ~HasPolygons(ann.segmentation)
            /\ ~isclose(bbox_area(ann), ann.area)
        finding(ann) ==
            [text |-> "Annotation (ID {id}) has a mismatched area.",
             id |-> ann.id, bbox_area |-> bbox_area(ann), area |-> ann.area]
    IN  LET found == SelectSeq(d.annotations, mismatched)
        IN  [n \in 1..Len(found) |-> finding(found[n])]

Max2(a, b) == IF a >= b THEN a ELSE b

\* count < threshold, with threshold = max(10, total_annotations * 0.001), both
\* sides scaled by 1000.  The product is a float; it compares with an integer
\* count as the exact product does.
BelowThreshold(count, total_annotations) ==
    count * 1000 < Max2(10 * 1000, total_annotations)

\* The rule without its guard on the size of the dataset.
IsLargeEnough_Always(total_annotations) == TRUE

\* not (`not total_annotations or total_annotations < 50`)
IsLargeEnough(total_annotations) == ~(total_annotations = 0 \/ total_annotations < 50)

\* The size of the dataset taken over the annotations of known categories only.
TotalAnnotations_MatchedOnly(d) ==
    Cardinality({i \in 1..Len(d.annotations) :
                    \E c \in 1..Len(d.categories) :
                        d.categories[c].id = d.annotations[i].category_id})

\* total_annotations = len(data.annotations)
TotalAnnotations(d) == Len(d.annotations)

check_statistical_class_distribution_imbalance(d) ==
    LET total_annotations == TotalAnnotations(d)
        category_counts ==
            Counter([i \in 1..Len(d.annotations) |-> d.annotations[i].category_id])
        rare(item) ==
            /\ BelowThreshold(item.val, total_annotations)
            /\ ById(d.categories, item.key) # NoRecord
        finding(item) ==
            [text |-> "Severe class imbalance: Category '{name}' has only {count} annotations.",
             name |-> ById(d.categories, item.key).name, count |-> item.val]
    IN  IF ~IsLargeEnough(total_annotations) THEN <<>>
        ELSE LET found == SelectSeq(category_counts, rare)
             IN  [n \in 1..Len(found) |-> finding(found[n])]

\* The rule without its early return on a document without annotations.
check_relation_images_without_annotations_NoEarlyReturn(d) ==
    LET annotated_image_ids == {d.annotations[i].image_id : i \in 1..Len(d.annotations)}
        unannotated(image) == image.id \notin annotated_image_ids
        finding(image) ==
            [text |-> "Image '{file_name}' (ID {id}) has no annotations.",
             file_name |-> image.file_name, id |-> image.id]
    IN  LET found == SelectSeq(d.images, unannotated)
        IN  [n \in 1..Len(found) |-> finding(found[n])]

check_relation_images_without_annotations(d) ==
    LET annotated_image_ids == {d.annotations[i].image_id : i \in 1..Len(d.annotations)}
        unannotated(image) == image.id \notin annotated_image_ids
        finding(image) ==
            [text |-> "Image '{file_name}' (ID {id}) has no annotations.",
             file_name |-> image.file_name, id |-> image.id]
    IN  IF d.annotations = <<>> THEN <<>>
        ELSE LET found == SelectSeq(d.images, unannotated)
             IN  [n \in 1..Len(found) |-> finding(found[n])]

\* The rule with a box that ends on the border of its image taken as outside.
check_geometry_bbox_out_of_bounds_BorderOutside(d) ==
    LET resolved(ann) == ById(d.images, ann.image_id) # NoRecord
        x2(ann) == ann.bbox[1] + ann.bbox[3]
        y2(ann) == ann.bbox[2] + ann.bbox[4]
        out_of_bounds(ann) ==
            /\ resolved(ann)
            /\ LET image == ById(d.images, ann.image_id)
               IN  \/ ann.bbox[1] < 0
                   \/ ann.bbox[2] < 0
                   \/ x2(ann) >= image.width
                   \/ y2(ann) >= image.height
        finding(ann) ==
            LET image == ById(d.images, ann.image_id)
            IN  [text |-> "Annotation (ID {id}) on image '{file_name}' (ID {image_id}) is out of bounds. Bbox [x2={x2}, y2={y2}] vs. Image [w={width}, h={height}].",
                 id |-> ann.id, file_name |-> image.file_name, image_id |-> ann.image_id,
                 x2 |-> x2(ann), y2 |-> y2(ann),
                 width |-> image.width, height |-> image.height]
    IN  LET found == SelectSeq(d.annotations, out_of_bounds)
        IN  [n \in 1..Len(found) |-> finding(found[n])]

\* The test that knows the first image of the document alone.
in_images_by_id_FirstImage(d, ann) ==
    d.images # <<>> /\ d.images[1].id = ann.image_id

\* ann.image_id in images_by_id: the annotations that fail it are skipped.
in_images_by_id(d, ann) == ById(d.images, ann.image_id) # NoRecord

\* images_by_id[ann.image_id] is the last image of that id.
check_geometry_bbox_out_of_bounds(d) ==
    LET resolved(ann) == in_images_by_id(d, ann)
        x2(ann) == ann.bbox[1] + ann.bbox[3]
        y2(ann) == ann.bbox[2] + ann.bbox[4]
        out_of_bounds(ann) ==
            /\ resolved(ann)
            /\ LET image == ById(d.images, ann.image_id)
               IN  \/ ann.bbox[1] < 0
                   \/ ann.bbox[2] < 0
                   \/ x2(ann) > image.width
                   \/ y2(ann) > image.height
        finding(ann) ==
            LET image == ById(d.images, ann.image_id)
            IN  [text |-> "Annotation (ID {id}) on image '{file_name}' (ID {image_id}) is out of bounds. Bbox [x2={x2}, y2={y2}] vs. Image [w={width}, h={height}].",
                 id |-> ann.id, file_name |-> image.file_name, image_id |-> ann.image_id,
                 x2 |-> x2(ann), y2 |-> y2(ann),
                 width |-> image.width, height |-> image.height]
    IN  LET found == SelectSeq(d.annotations, out_of_bounds)
        IN  [n \in 1..Len(found) |-> finding(found[n])]

\* str.lower, on the letters of ASCII.
Lower(name) ==
    [i \in 1..Len(name) |-> IF name[i] >= 65 /\ name[i] <= 90 THEN name[i] + 32 ELSE name[i]]

\* sorted(strings): by code points.
RECURSIVE SortedStrings(_)
SortedStrings(strings) ==
    IF strings = {} THEN <<>>
    ELSE LET least == CHOOSE x \in strings : \A y \in strings : StrLessEq(x, y)
         IN  <<least>> \o SortedStrings(strings \ {least})

\* The rule flagging a lower-cased name as soon as two categories carry it.
check_category_case_consistency_CountsCategories(d) ==
    LET names == [i \in 1..Len(d.categories) |-> d.categories[i].name]
        lower_names == InFirstSeenOrder([i \in 1..Len(names) |-> Lower(names[i])],
                                        {Lower(names[i]) : i \in 1..Len(names)})
        original_names(lower_name) ==
            {names[i] : i \in {j \in 1..Len(names) : Lower(names[j]) = lower_name}}
        inconsistent(lower_name) ==
            Cardinality({j \in 1..Len(names) : Lower(names[j]) = lower_name}) > 1
        finding(lower_name) ==
            [text |-> "Inconsistent capitalization for '{lower_name}'. Found: {sorted_names}",
             lower_name |-> lower_name,
             sorted_names |-> SortedStrings(original_names(lower_name))]
    IN  LET found == SelectSeq(lower_names, inconsistent)
        IN  [n \in 1..Len(found) |-> finding(found[n])]

\* names_by_lower is a dict of sets: its keys in the order the lower-cased
\* names first occur among the categories.
check_category_case_consistency(d) ==
    LET names == [i \in 1..Len(d.categories) |-> d.categories[i].name]
        lower_names == InFirstSeenOrder([i \in 1..Len(names) |-> Lower(names[i])],
                                        {Lower(names[i]) : i \in 1..Len(names)})
        original_names(lower_name) ==
            {names[i] : i \in {j \in 1..Len(names) : Lower(names[j]) = lower_name}}
        inconsistent(lower_name) == Cardinality(original_names(lower_name)) > 1
        finding(lower_name) ==
            [text |-> "Inconsistent capitalization for '{lower_name}'. Found: {sorted_names}",
             lower_name |-> lower_name,
             sorted_names |-> SortedStrings(original_names(lower_name))]
    IN  LET found == SelectSeq(lower_names, inconsistent)
        IN  [n \in 1..Len(found) |-> finding(found[n])]

\* The rule counting the names without regard to case.
check_category_duplicate_names_IgnoringCase(d) ==
    LET name_counts == Counter([i \in 1..Len(d.categories) |-> Lower(d.categories[i].name)])
        duplicated(item) == item.val > 1
        finding(item) ==
            [text |-> "Duplicate category name '{name}' appears {count} times.",
             name |-> item.key, count |-> item.val]
    IN  LET found == SelectSeq(name_counts, duplicated)
        IN  [n \in 1..Len(found) |-> finding(found[n])]

check_category_duplicate_names(d) ==
    LET name_counts == Counter([i \in 1..Len(d.categories) |-> d.categories[i].name])
        duplicated(item) == item.val > 1
        finding(item) ==
            [text |-> "Duplicate category name '{name}' appears {count} times.",
             name |-> item.key, count |-> item.val]
    IN  LET found == SelectSeq(name_counts, duplicated)
        IN  [n \in 1..Len(found) |-> finding(found[n])]

check_category_duplicate_ids(d) ==
    LET id_counts == Counter([i \in 1..Len(d.categories) |-> d.categories[i].id])
        duplicated(item) == item.val > 1
        finding(item) ==
            [text |-> "Duplicate category ID #{cat_id} appears {count} times.",
             cat_id |-> item.key, count |-> item.val]
    IN  LET found == SelectSeq(id_counts, duplicated)
        IN  [n \in 1..Len(found) |-> finding(found[n])]

RECURSIVE Lcm(_)
Lcm(numbers) ==
    LET RECURSIVE Gcd(_, _)
        Gcd(a, b) == IF b = 0 THEN a ELSE Gcd(b, a % b)
    IN  IF numbers = {} THEN 1
        ELSE LET n == CHOOSE x \in numbers : TRUE
                 rest == Lcm(numbers \ {n})
             IN  (n * rest) \div Gcd(n, rest)

\* 4 * np.percentile(q, 25 * quarters), by linear interpolation between the
\* two order statistics around the position (n - 1) * quarters / 4.
Percentile(q, quarters) ==
    LET OrderStatistic(k) ==   \* the k-th value of sorted(q), k from 1
            CHOOSE v \in {q[i] : i \in 1..Len(q)} :
                /\ Cardinality({i \in 1..Len(q) : q[i] < v}) < k
                /\ k <= Cardinality({i \in 1..Len(q) : q[i] <= v})
        position == (Len(q) - 1) * quarters
        previous_index == position \div 4
        gamma == position % 4
        a == OrderStatistic(previous_index + 1)
        b == OrderStatistic(IF previous_index + 2 <= Len(q) THEN previous_index + 2
                            ELSE Len(q))
    IN  4 * a + gamma * (b - a)

\* The ratios w / h are kept as integers, over the common denominator `scale`;
\* q1 and q3 are 4 times, the bounds 8 times as large again.  A box of
\* infinite width has the ratio inf: the percentiles of ratios that are all
\* inf are inf or nan, q3 - q1 is nan, so are both bounds, and no comparison
\* with them holds.  The ratio and the bounds the rule prints are fractions,
\* NaN the fraction 0/0.  (What np.percentile gives when inf is one ratio among
\* finite ones depends on the position it reads; no document of the model
\* mixes them.)
check_statistical_bbox_aspect_ratio_outliers(d) ==
    LET Frac(num, den) == [num |-> num, den |-> den]
        NaN == Frac(0, 0)
        measured == SelectSeq(d.annotations, LAMBDA ann : ann.bbox[3] > 0 /\ ann.bbox[4] > 0)
        scale == Lcm({measured[i].bbox[4] : i \in 1..Len(measured)})
        ratio(ann) == (ann.bbox[3] * scale) \div ann.bbox[4]
        aspect_ratios == [i \in 1..Len(measured) |-> ratio(measured[i])]
        infinite == \E i \in 1..Len(measured) : measured[i].bbox[3] = Infinity
        q1 == Percentile(aspect_ratios, 1)
        q3 == Percentile(aspect_ratios, 3)
        iqr == q3 - q1
        lower_bound == 2 * q1 - 3 * iqr
        upper_bound == 2 * q3 + 3 * iqr
        outlier(ann) ==
            /\ ann.bbox[3] > 0 /\ ann.bbox[4] > 0
            /\ \/ infinite
               \/ ~(lower_bound <= 8 * ratio(ann) /\ 8 * ratio(ann) <= upper_bound)
        finding(ann) ==
            [text |-> "Annotation (ID {id}) on image (ID {image_id}) has an outlier aspect ratio of {ar}. Typical range: [{lower_bound} - {upper_bound}].",
             id |-> ann.id, image_id |-> ann.image_id,
             ar |-> Frac(ann.bbox[3], ann.bbox[4]),
             lower_bound |-> IF infinite THEN NaN ELSE Frac(lower_bound, 8 * scale),
             upper_bound |-> IF infinite THEN NaN ELSE Frac(upper_bound, 8 * scale)]
    IN  IF d.annotations = <<>> THEN <<>>
        ELSE IF aspect_ratios = <<>> THEN <<>>
        ELSE LET found == SelectSeq(d.annotations, outlier)
             IN  [n \in 1..Len(found) |-> finding(found[n])]

\* The rule looking only at the annotations of an existing image.
check_geometry_zero_area_bboxes_ResolvedOnly(d) ==
    LET zero_area(ann) ==
            /\ ById(d.images, ann.image_id) # NoRecord
            /\ (ann.bbox[3] = 0 \/ ann.bbox[4] = 0)
        finding(ann) ==
            [text |-> "Annotation (ID {id}) on image (ID {image_id}) has a zero-area bounding box [w={w}, h={h}].",
             id |-> ann.id, image_id |-> ann.image_id, w |-> ann.bbox[3], h |-> ann.bbox[4]]
    IN  LET found == SelectSeq(d.annotations, zero_area)
        IN  [n \in 1..Len(found) |-> finding(found[n])]

check_geometry_zero_area_bboxes(d) ==
    LET zero_area(ann) == ann.bbox[3] = 0 \/ ann.bbox[4] = 0
        finding(ann) ==
            [text |-> "Annotation (ID {id}) on image (ID {image_id}) has a zero-area bounding box [w={w}, h={h}].",
             id |-> ann.id, image_id |-> ann.image_id, w |-> ann.bbox[3], h |-> ann.bbox[4]]
    IN  LET found == SelectSeq(d.annotations, zero_area)
        IN  [n \in 1..Len(found) |-> finding(found[n])]

(***************************************************************************)
(* The module labellint.rules as it is written: its rule functions with    *)
(* the names they are defined under.                                       *)
(***************************************************************************)
\* "check_attribute_area_bbox_mismatch"
Name_check_attribute_area_bbox_mismatch ==
    CheckPrefix \o
        <<97, 116, 116, 114, 105, 98, 117, 116, 101, 95, 97, 114, 101, 97, 95,
        98, 98, 111, 120, 95, 109, 105, 115, 109, 97, 116, 99, 104>>

\* "check_relation_unmatched_annotations"
Name_check_relation_unmatched_annotations ==
    CheckPrefix \o
        <<114, 101, 108, 97, 116, 105, 111, 110, 95, 117, 110, 109, 97, 116,
        99, 104, 101, 100, 95, 97, 110, 110, 111, 116, 97, 116, 105, 111, 110,
        115>>

\* "check_relation_unmatched_category"
Name_check_relation_unmatched_category ==
    CheckPrefix \o
        <<114, 101, 108, 97, 116, 105, 111, 110, 95, 117, 110, 109, 97, 116,
        99, 104, 101, 100, 95, 99, 97, 116, 101, 103, 111, 114, 121>>

\* "check_statistical_class_distribution_imbalance"
Name_check_statistical_class_distribution_imbalance ==
    CheckPrefix \o
        <<115, 116, 97, 116, 105, 115, 116, 105, 99, 97, 108, 95, 99, 108, 97,
        115, 115, 95, 100, 105, 115, 116, 114, 105, 98, 117, 116, 105, 111,
        110, 95, 105, 109, 98, 97, 108, 97, 110, 99, 101>>

RulesModule ==
    {Member(Name_get_all_rules, TRUE, "other"),
     Member(Name_Counter, FALSE, "other"),
     Member(Name_check_attribute_area_bbox_mismatch, TRUE,
            "check_attribute_area_bbox_mismatch"),
     Member(Name_check_relation_unmatched_annotations, TRUE,
            "check_relation_unmatched_annotations"),
     Member(Name_check_relation_unmatched_category, TRUE,
            "check_relation_unmatched_category"),
     Member(Name_check_statistical_class_distribution_imbalance, TRUE,
            "check_statistical_class_distribution_imbalance")}

\* The names of the seven other rules of labellint.rules, as their code points.
Name ==
    [check_relation_images_without_annotations |->
         CheckPrefix \o
            <<114, 101, 108, 97, 116, 105, 111, 110, 95, 105, 109,
            97, 103, 101, 115, 95, 119, 105, 116, 104, 111, 117,
            116, 95, 97, 110, 110, 111, 116, 97, 116, 105, 111,
            110, 115>>,
     check_geometry_bbox_out_of_bounds |->
         CheckPrefix \o
            <<103, 101, 111, 109, 101, 116, 114, 121, 95, 98, 98,
            111, 120, 95, 111, 117, 116, 95, 111, 102, 95, 98,
            111, 117, 110, 100, 115>>,
     check_category_case_consistency |->
         CheckPrefix \o
            <<99, 97, 116, 101, 103, 111, 114, 121, 95, 99, 97,
            115, 101, 95, 99, 111, 110, 115, 105, 115, 116, 101,
            110, 99, 121>>,
     check_category_duplicate_names |->
         CheckPrefix \o
            <<99, 97, 116, 101, 103, 111, 114, 121, 95, 100, 117,
            112, 108, 105, 99, 97, 116, 101, 95, 110, 97, 109,
            101, 115>>,
     check_category_duplicate_ids |->
         CheckPrefix \o
            <<99, 97, 116, 101, 103, 111, 114, 121, 95, 100, 117,
            112, 108, 105, 99, 97, 116, 101, 95, 105, 100, 115>>,
     check_statistical_bbox_aspect_ratio_outliers |->
         CheckPrefix \o
            <<115, 116, 97, 116, 105, 115, 116, 105, 99, 97, 108,
            95, 98, 98, 111, 120, 95, 97, 115, 112, 101, 99, 116,
            95, 114, 97, 116, 105, 111, 95, 111, 117, 116, 108,
            105, 101, 114, 115>>,
     check_geometry_zero_area_bboxes |->
         CheckPrefix \o
            <<103, 101, 111, 109, 101, 116, 114, 121, 95, 122,
            101, 114, 111, 95, 97, 114, 101, 97, 95, 98, 98, 111,
            120, 101, 115>>]

\* The module labellint.rules whole: the rules above and the seven others.
AllRulesModule ==
    RulesModule
    \cup {Member(Name.check_relation_images_without_annotations, TRUE,
                   "check_relation_images_without_annotations"),
           Member(Name.check_geometry_bbox_out_of_bounds, TRUE,
                   "check_geometry_bbox_out_of_bounds"),
           Member(Name.check_category_case_consistency, TRUE,
                   "check_category_case_consistency"),
           Member(Name.check_category_duplicate_names, TRUE,
                   "check_category_duplicate_names"),
           Member(Name.check_category_duplicate_ids, TRUE,
                   "check_category_duplicate_ids"),
           Member(Name.check_statistical_bbox_aspect_ratio_outliers, TRUE,
                   "check_statistical_bbox_aspect_ratio_outliers"),
           Member(Name.check_geometry_zero_area_bboxes, TRUE,
                   "check_geometry_zero_area_bboxes")}

(***************************************************************************)
(* core.format_json: the JSON document made of a ScanResult. The findings  *)
(* object keeps the order of the dict it is made from.                     *)
(***************************************************************************)
\* The report with one finding kept for each rule.
format_json_Truncated(result) ==
    LET output_dict ==
            [summary |->
                 JObj([total_findings |-> JNum(result.total_findings),
                       images_scanned |-> JNum(Len(result.data.images)),
                       annotations_scanned |-> JNum(Len(result.data.annotations)),
                       categories_found |-> JNum(Len(result.data.categories))]),
             findings |->
                 JObj([i \in 1..Len(result.findings) |->
                          [key |-> result.findings[i].key,
                           val |-> JArr(<<JStr(result.findings[i].val[1])>>)]])]
    IN  JObj(output_dict)

format_json(result) ==
    LET output_dict ==
            [summary |->
                 JObj([total_findings |-> JNum(result.total_findings),
                       images_scanned |-> JNum(Len(result.data.images)),
                       annotations_scanned |-> JNum(Len(result.data.annotations)),
                       categories_found |-> JNum(Len(result.data.categories))]),
             findings |->
                 JObj([i \in 1..Len(result.findings) |->
                          [key |-> result.findings[i].key,
                           val |-> JArr([j \in 1..Len(result.findings[i].val) |->
                                            JStr(result.findings[i].val[j])])]])]
    IN  JObj(output_dict)

(***************************************************************************)
(* core.run_scan                                                           *)
(***************************************************************************)
\* rule_func(data): raises, or returns a list of findings.  Calling an object
\* that is no rule (not callable, or of another signature) raises TypeError.
\* The document is passed by reference: `data` is what the call leaves of it.
Call(raised, value, d) == [raised |-> raised, value |-> value, data |-> d]

\* A call in which the rule empties the list of annotations it was given.
Invoke_ConsumesAnnotations(rule_func, d) ==
    CASE rule_func.body = "raise" -> Call(TRUE, <<>>, d)
      [] rule_func.body = "empty" -> Call(FALSE, <<>>, d)
      [] rule_func.body = "two" -> Call(FALSE, <<"Finding 1", "Finding 2">>, d)
      [] rule_func.body = "check_attribute_area_bbox_mismatch" ->
             Call(FALSE, check_attribute_area_bbox_mismatch(d), d)
      [] rule_func.body = "check_relation_unmatched_annotations" ->
             Call(FALSE, check_relation_unmatched_annotations(d),
                  [d EXCEPT !.annotations = <<>>])
      [] rule_func.body = "check_relation_unmatched_category" ->
             Call(FALSE, check_relation_unmatched_category(d), d)
      [] rule_func.body = "check_statistical_class_distribution_imbalance" ->
             Call(FALSE, check_statistical_class_distribution_imbalance(d), d)
      [] OTHER -> Call(TRUE, <<>>, d)

Invoke(rule_func, d) ==
    CASE rule_func.body = "raise" -> Call(TRUE, <<>>, d)
      [] rule_func.body = "empty" -> Call(FALSE, <<>>, d)
      [] rule_func.body = "two" -> Call(FALSE, <<"Finding 1", "Finding 2">>, d)
      [] rule_func.body = "check_attribute_area_bbox_mismatch" ->
             Call(FALSE, check_attribute_area_bbox_mismatch(d), d)
      [] rule_func.body = "check_relation_unmatched_annotations" ->
             Call(FALSE, check_relation_unmatched_annotations(d), d)
      [] rule_func.body = "check_relation_unmatched_category" ->
             Call(FALSE, check_relation_unmatched_category(d), d)
      [] rule_func.body = "check_statistical_class_distribution_imbalance" ->
             Call(FALSE, check_statistical_class_distribution_imbalance(d), d)
      [] rule_func.body = "check_relation_images_without_annotations" ->
             Call(FALSE, check_relation_images_without_annotations(d), d)
      [] rule_func.body = "check_geometry_bbox_out_of_bounds" ->
             Call(FALSE, check_geometry_bbox_out_of_bounds(d), d)
      [] rule_func.body = "check_category_case_consistency" ->
             Call(FALSE, check_category_case_consistency(d), d)
      [] rule_func.body = "check_category_duplicate_names" ->
             Call(FALSE, check_category_duplicate_names(d), d)
      [] rule_func.body = "check_category_duplicate_ids" ->
             Call(FALSE, check_category_duplicate_ids(d), d)
      [] rule_func.body = "check_statistical_bbox_aspect_ratio_outliers" ->
             Call(FALSE, check_statistical_bbox_aspect_ratio_outliers(d), d)
      [] rule_func.body = "check_geometry_zero_area_bboxes" ->
             Call(FALSE, check_geometry_zero_area_bboxes(d), d)
      [] OTHER -> Call(TRUE, <<>>, d)

\* A dict in insertion order: assigning to a key it holds keeps the key's place.
Keys(d) == {d[i].key : i \in 1..Len(d)}

HasKey(d, key) == \E i \in 1..Len(d) : d[i].key = key

DictSet(d, key, val) ==
    IF HasKey(d, key)
    THEN [i \in 1..Len(d) |-> IF d[i].key = key THEN [key |-> key, val |-> val] ELSE d[i]]
    ELSE Append(d, [key |-> key, val |-> val])

DictGet(d, key) == d[CHOOSE i \in 1..Len(d) : d[i].key = key].val

error_finding == <<"Rule execution failed with an internal error.">>

ErrorKey(rule_name) == rule_name \o ExecutionErrorSuffix

NoOutcome == [kind |-> "none"]
Raise(exc) == [kind |-> "raise", exc |-> exc]
Return(value) == [kind |-> "return", value |-> value]

\* A handler that raises an error of its own in place of the validator's.
Propagate_AsScanError(exc) == Raise([type |-> "ScanError", cause |-> exc.type])

\* run_scan's handler of ParseError: log, then a bare raise.
Propagate(exc) == Raise(exc)

FileAccessError(cause) == [type |-> "FileAccessError", cause |-> cause]
InvalidFormatError(detail) == [type |-> "InvalidFormatError", detail |-> detail]

(***************************************************************************)
(* The state machine: one process that runs scans, one after the other.    *)
(***************************************************************************)
Init ==
    /\ module \in Modules
    /\ pc = "idle"
    /\ source = NoSource
    /\ stages = <<>>
    /\ data = NoData
    /\ all_rules = <<>>
    /\ idx = 0
    /\ results = <<>>
    /\ total_findings = 0
    /\ calls = <<>>
    /\ outcome = NoOutcome
    /\ previous = "none"
    /\ command = [status |-> "none"]   \* run_scan is not called by the CLI

\* A caller calls run_scan(filepath).
StartScan(src) ==
    /\ pc = "idle"
    /\ pc' = "read"
    /\ source' = src
    /\ UNCHANGED <<module, command, previous, stages, data, all_rules, idx, results, total_findings,
                   calls, outcome>>

\* Stage 1 without its last handler: an error of read_text that is no OSError
\* (a text that cannot be decoded) leaves parse_coco as it is.
ReadFile_NoCatchAll ==
    /\ pc = "read"
    /\ stages' = Append(stages, "access")
    /\ IF source.access = "ok"
       THEN /\ pc' = "parse"
            /\ UNCHANGED outcome
       ELSE /\ pc' = "raised"
            /\ outcome' =
                 CASE source.access = "FileNotFoundError" ->
                          Raise(FileAccessError("does not exist"))
                   [] source.access = "OSError" -> Raise(FileAccessError("OS-level error"))
                   [] OTHER -> Raise([type |-> source.access])
    /\ UNCHANGED <<module, command, previous, source, data, all_rules, idx, results,
                   total_findings, calls>>

\* parse_coco, stage 1: path.read_text.  Every exception becomes a
\* FileAccessError, which run_scan re-raises to its caller.
ReadFile ==
    /\ pc = "read"
    /\ stages' = Append(stages, "access")
    /\ IF source.access = "ok"
       THEN /\ pc' = "parse"
            /\ UNCHANGED outcome
       ELSE /\ pc' = "raised"
            /\ outcome' =
                 Propagate(FileAccessError(
                     CASE source.access = "FileNotFoundError" -> "does not exist"
                       [] source.access = "OSError" -> "OS-level error"
                       [] OTHER -> "unexpected error"))
    /\ UNCHANGED <<module, command, previous, source, data, all_rules, idx, results,
                   total_findings, calls>>

\* parse_coco, stage 2: json.loads.
ParseJson ==
    /\ pc = "parse"
    /\ stages' = Append(stages, "syntax")
    /\ IF source.text.valid
       THEN /\ pc' = "validate"
            /\ UNCHANGED outcome
       ELSE /\ pc' = "raised"
            /\ outcome' =
                 Propagate(InvalidFormatError(
                     [stage |-> "syntax", lineno |-> source.text.lineno,
                      colno |-> source.text.colno]))
    /\ UNCHANGED <<module, command, previous, source, data, all_rules, idx, results,
                   total_findings, calls>>

\* parse_coco, stage 3: COCOData.model_validate; the first error is reported.
ValidateSchema ==
    /\ pc = "validate"
    /\ stages' = Append(stages, "structural")
    /\ LET validated == model_validate(source.text.tree)
       IN  IF validated.ok
           THEN /\ pc' = "discover"
                /\ data' = validated.value
                /\ UNCHANGED outcome
           ELSE /\ pc' = "raised"
                /\ outcome' =
                     Propagate(InvalidFormatError(
                         [stage |-> "structural",
                          message |-> error_summary(validated.errors)]))
                /\ UNCHANGED data
    /\ UNCHANGED <<module, command, previous, source, all_rules, idx, results,
                   total_findings, calls>>

\* Rule discovery that treats an empty registry as an error.
DiscoverRules_RaisesOnEmpty ==
    /\ pc = "discover"
    /\ all_rules' = get_all_rules(module)
    /\ IF get_all_rules(module) = <<>>
       THEN /\ pc' = "raised"
            /\ outcome' = Raise([type |-> "RuntimeError"])
       ELSE /\ pc' = "execute"
            /\ UNCHANGED outcome
    /\ UNCHANGED <<module, command, previous, source, stages, data, idx, results,
                   total_findings, calls>>

\* run_scan, stage 2: rule discovery.
DiscoverRules ==
    /\ pc = "discover"
    /\ all_rules' = get_all_rules(module)
    /\ pc' = "execute"
    /\ UNCHANGED <<module, command, previous, source, stages, data, idx, results,
                   total_findings, calls, outcome>>

\* The pass with the synthetic finding recorded under the rule's own name.
Aggregate_ErrorUnderRuleName(res, total, rule_name, call) ==
    IF call.raised
    THEN [results |-> DictSet(res, rule_name, error_finding),
          total_findings |-> total + 1]
    ELSE IF call.value # <<>>
    THEN [results |-> DictSet(res, rule_name, call.value),
          total_findings |-> total + Len(call.value)]
    ELSE [results |-> res, total_findings |-> total]

\* What one pass of the loop of run_scan makes of results and total_findings.
Aggregate(res, total, rule_name, call) ==
    IF call.raised
    THEN [results |-> DictSet(res, ErrorKey(rule_name), error_finding),
          total_findings |-> total + 1]
    ELSE IF call.value # <<>>
    THEN [results |-> DictSet(res, rule_name, call.value),
          total_findings |-> total + Len(call.value)]
    ELSE [results |-> res, total_findings |-> total]

\* The loop without its failure boundary: the exception of a rule leaves run_scan.
ExecuteRule_NoFailureBoundary ==
    /\ pc = "execute"
    /\ idx < Len(all_rules)
    /\ LET rule_func == all_rules[idx + 1]
           rule_name == rule_func.name
           call == Invoke(rule_func, data)
           next == Aggregate(results, total_findings, rule_name, call)
       IN  /\ calls' = Append(calls, rule_name)
           /\ data' = call.data
           /\ IF call.raised
              THEN /\ pc' = "raised"
                   /\ outcome' = Raise([type |-> "Exception"])
                   /\ UNCHANGED <<results, total_findings>>
              ELSE /\ results' = next.results
                   /\ total_findings' = next.total_findings
                   /\ UNCHANGED <<pc, outcome>>
    /\ idx' = idx + 1
    /\ UNCHANGED <<module, command, previous, source, stages, all_rules>>

\* run_scan, stage 3: one pass of the loop over all_rules.
ExecuteRule ==
    /\ pc = "execute"
    /\ idx < Len(all_rules)
    /\ LET rule_func == all_rules[idx + 1]
           rule_name == rule_func.name
           call == Invoke(rule_func, data)
           next == Aggregate(results, total_findings, rule_name, call)
       IN  /\ calls' = Append(calls, rule_name)
           /\ data' = call.data
           /\ results' = next.results
           /\ total_findings' = next.total_findings
    /\ idx' = idx + 1
    /\ UNCHANGED <<module, command, previous, pc, source, stages, all_rules, outcome>>

\* run_scan, stage 4: the loop is over, the ScanResult is returned.
ReturnResult ==
    /\ pc = "execute"
    /\ idx = Len(all_rules)
    /\ outcome' = Return([data |-> data, findings |-> results,
                          total_findings |-> total_findings])
    /\ pc' = "done"
    /\ UNCHANGED <<module, command, previous, source, stages, data, all_rules, idx,
                   results,
                   total_findings, calls>>

\* The end of a scan whose results and total_findings are objects of the module
\* instead of locals of run_scan: the next scan finds them as this one left them.
FinishScan_KeepsResults ==
    /\ pc \in {"done", "raised"}
    /\ pc' = "idle"
    /\ source' = NoSource
    /\ stages' = <<>>
    /\ data' = NoData
    /\ all_rules' = <<>>
    /\ idx' = 0
    /\ calls' = <<>>
    /\ outcome' = NoOutcome
    /\ previous' = outcome.kind
    /\ UNCHANGED <<module, command, results, total_findings>>

\* The caller has taken what run_scan returned or raised; nothing of the scan
\* is kept, and the process is ready for the next scan.
FinishScan ==
    /\ pc \in {"done", "raised"}
    /\ pc' = "idle"
    /\ source' = NoSource
    /\ stages' = <<>>
    /\ data' = NoData
    /\ all_rules' = <<>>
    /\ idx' = 0
    /\ results' = <<>>
    /\ total_findings' = 0
    /\ calls' = <<>>
    /\ outcome' = NoOutcome
    /\ previous' = outcome.kind
    /\ UNCHANGED <<module, command>>

Next ==
    \/ \E src \in Sources : StartScan(src)
    \/ ReadFile
    \/ ParseJson
    \/ ValidateSchema
    \/ DiscoverRules
    \/ ExecuteRule
    \/ ReturnResult
    \/ FinishScan

Spec == Init /\ [][Next]_vars

(***************************************************************************)
(* The scans of the rules labellint ships, over the documents the rules    *)
(* are run against.                                                        *)
(***************************************************************************)
InitRules ==
    /\ module = RulesModule
    /\ pc = "idle"
    /\ source = NoSource
    /\ stages = <<>>
    /\ data = NoData
    /\ all_rules = <<>>
    /\ idx = 0
    /\ results = <<>>
    /\ total_findings = 0
    /\ calls = <<>>
    /\ outcome = NoOutcome
    /\ previous = "none"
    /\ command = [status |-> "none"]   \* run_scan is not called by the CLI

\* run_scan(filepath) on a file that holds the text of a valid document:
\* parse_coco passes its three stages and returns the document.
ParseCoco(d) ==
    /\ pc = "idle"
    /\ source' = SourceOf(d)
    /\ stages' = <<"access", "syntax", "structural">>
    /\ data' = BuildCOCOData(json_dumps(d))
    /\ pc' = "discover"
    /\ UNCHANGED <<module, command, previous, all_rules, idx, results, total_findings, calls,
                   outcome>>

NextRules ==
    \/ \E d \in RuleDocuments : ParseCoco(d)
    \/ DiscoverRules
    \/ ExecuteRule
    \/ ReturnResult
    \/ FinishScan

SpecRules == InitRules /\ [][NextRules]_vars

(***************************************************************************)
(* The scans of the whole module of rules, over documents that vary what   *)
(* each rule looks at.                                                     *)
(***************************************************************************)
InitLint ==
    /\ module = AllRulesModule
    /\ pc = "idle"
    /\ source = NoSource
    /\ stages = <<>>
    /\ data = NoData
    /\ all_rules = <<>>
    /\ idx = 0
    /\ results = <<>>
    /\ total_findings = 0
    /\ calls = <<>>
    /\ outcome = NoOutcome
    /\ previous = "none"
    /\ command = [status |-> "none"]   \* run_scan is not called by the CLI

NextLint ==
    \/ \E d \in LintDocuments : ParseCoco(d)
    \/ DiscoverRules
    \/ ExecuteRule
    \/ ReturnResult
    \/ FinishScan

SpecLint == InitLint /\ [][NextLint]_vars

(***************************************************************************)
(* labellint.main: the scan command of the CLI.  One process runs one      *)
(* command: it calls run_scan, prints the report, writes the report file   *)
(* when --out is given, and exits.                                         *)
(***************************************************************************)
\* name.replace("check_", "").replace("_", " ").title(); str.replace(old, "")
\* removes every occurrence of old, from the left; str.title makes a letter
\* that follows no letter upper case, and the other letters lower case.
format_rule_name(name) ==
    LET RECURSIVE Remove(_, _)
        Remove(s, old) ==
            IF s = <<>> THEN <<>>
            ELSE IF StartsWith(s, old) THEN Remove(SubSeq(s, Len(old) + 1, Len(s)), old)
            ELSE <<s[1]>> \o Remove(Tail(s), old)
        IsLetter(c) == (c >= 65 /\ c <= 90) \/ (c >= 97 /\ c <= 122)
        Title(s) ==
            [i \in 1..Len(s) |->
                IF ~IsLetter(s[i]) THEN s[i]
                ELSE IF i > 1 /\ IsLetter(s[i - 1])
                THEN (IF s[i] <= 90 THEN s[i] + 32 ELSE s[i])
                ELSE (IF s[i] >= 97 THEN s[i] - 32 ELSE s[i])]
        bare == Remove(name, CheckPrefix)
    IN  Title([i \in 1..Len(bare) |-> IF bare[i] = 95 THEN 32 ELSE bare[i]])

\* _print_report(result): the summary panel, then, with findings, the tree of
\* the findings: one node for each key in the order of the sorted keys, with
\* the first ten findings of the key.  getattr(rules, rule_name) has no
\* default: a key that is no attribute of the rules module raises
\* AttributeError, before the tree is printed.
print_report(result, rules) ==
    LET findings == result.findings
        sorted_results == SortedStrings(Keys(findings))
        node(rule_name) ==
            LET rule_findings == DictGet(findings, rule_name)
            IN  [label |-> format_rule_name(rule_name),
                 count |-> Len(rule_findings),
                 shown |-> SubSeq(rule_findings, 1, Min2(10, Len(rule_findings))),
                 more |-> IF Len(rule_findings) > 10 THEN Len(rule_findings) - 10 ELSE 0]
        summary == [images |-> Len(result.data.images),
                    annotations |-> Len(result.data.annotations),
                    categories |-> Len(result.data.categories),
                    total_findings |-> result.total_findings]
    IN  IF result.total_findings > 0
        THEN IF \E key \in Keys(findings) : ~\E m \in rules : m.name = key
             THEN [raised |-> TRUE, summary |-> summary, tree |-> <<>>]
             ELSE [raised |-> FALSE, summary |-> summary,
                   tree |-> [i \in 1..Len(sorted_results) |-> node(sorted_results[i])]]
        ELSE [raised |-> FALSE, summary |-> summary, tree |-> <<>>]

\* The keys of core.SUPPORTED_FORMATS.
SUPPORTED_FORMATS == {"json"}

\* scan, from the return of core.run_scan on: the try block with its handlers
\* and the exit.  The command ends with the report it printed, the panel of
\* its handler, the report file it wrote, the exception that left the function
\* and the exit code of the process.  ParseError is the family of
\* labellint.formats.  typer.Exit is an Exception (click's Exit is a
\* RuntimeError): the exit of an unsupported format passes through
\* `except Exception`.
scan(cmd, run, rules) ==
    LET Ended(report, panel, file, exception, exit_code) ==
            [status |-> "exited", output_file |-> cmd.output_file,
             output_format |-> cmd.output_format, report |-> report, panel |-> panel,
             file |-> file, exception |-> exception, exit_code |-> exit_code]
        NoReport == [raised |-> FALSE, summary |-> "none", tree |-> <<>>]
        NoFile == [k |-> "none"]
        ParseErrors == {"FileAccessError", "InvalidFormatError"}
    IN  IF run.kind = "raise"
        THEN IF run.exc.type \in ParseErrors
             THEN Ended(NoReport, "Parsing Failed", NoFile, "Exit", 1)
             ELSE Ended(NoReport, "Critical Error", NoFile, run.exc.type, 1)
        ELSE LET result == run.value
                 report == print_report(result, rules)
             IN  IF report.raised
                 THEN Ended(report, "Critical Error", NoFile, "AttributeError", 1)
                 ELSE IF cmd.output_file /\ cmd.output_format \notin SUPPORTED_FORMATS
                 THEN Ended(report, "Critical Error", NoFile, "Exit", 1)
                 ELSE Ended(report,
                            IF cmd.output_file THEN "Report Saved" ELSE "none",
                            IF cmd.output_file THEN format_json(result) ELSE NoFile,
                            "Exit",
                            IF result.total_findings > 0 THEN 1 ELSE 0)

\* A scan command with its options: --out given or not, and --format.
InitCli ==
    /\ module \in Modules
    /\ pc = "idle"
    /\ source = NoSource
    /\ stages = <<>>
    /\ data = NoData
    /\ all_rules = <<>>
    /\ idx = 0
    /\ results = <<>>
    /\ total_findings = 0
    /\ calls = <<>>
    /\ outcome = NoOutcome
    /\ previous = "none"
    /\ command \in [status : {"running"}, output_file : BOOLEAN,
                    output_format : {"json", "xml"}]

\* run_scan has returned or raised: the command prints, writes and exits.
CompleteScan ==
    /\ pc \in {"done", "raised"}
    /\ command.status = "running"
    /\ command' = scan(command, outcome, module)
    /\ pc' = "exited"
    /\ UNCHANGED <<module, previous, source, stages, data, all_rules, idx, results,
                   total_findings, calls, outcome>>

NextCli ==
    \/ \E src \in Sources : StartScan(src)
    \/ ReadFile
    \/ ParseJson
    \/ ValidateSchema
    \/ DiscoverRules
    \/ ExecuteRule
    \/ ReturnResult
    \/ CompleteScan

SpecCli == InitCli /\ [][NextCli]_vars

(***************************************************************************)
(* Properties.                                                             *)
(***************************************************************************)
Count(q, x) == Cardinality({i \in 1..Len(q) : q[i] = x})

\* The rules registered in the module: its functions named check_...
RegisteredRules == {m \in module : m.isfunction /\ StartsWith(m.name, CheckPrefix)}

\* C1: whatever the registered rules do, run_scan on a validated document
\* returns a ScanResult: an exception of a rule never leaves run_scan, and
\* when run_scan is over every registered rule has been invoked exactly once,
\* the rules ordered after a rule that raised included.
C1_FaultIsolation ==
    /\ calls # <<>> => pc \in {"execute", "done"} /\ outcome.kind # "raise"
    /\ pc = "done" =>
          /\ outcome.kind = "return"
          /\ Len(calls) = Cardinality(RegisteredRules)
          /\ \A m \in RegisteredRules : Count(calls, m.name) = 1

\* A scan is over in which a rule raised and a rule ordered after it was invoked.
C1_Witness ==
    /\ pc = "done"
    /\ \E i, j \in 1..Len(calls) :
          /\ i < j
          /\ all_rules[i].body = "raise"
          /\ calls[j] = all_rules[j].name

\* C2: the pass of the loop in which a rule named R raises gives findings the
\* key R_execution_error with the one-element list of the synthetic finding as
\* its value, records nothing under R, changes no other key, and adds exactly 1
\* to total_findings.
C2_SyntheticFinding ==
    [][(/\ pc = "execute"
        /\ idx < Len(all_rules)
        /\ idx' = idx + 1
        /\ all_rules[idx + 1].body = "raise")
       => LET R == all_rules[idx + 1].name
          IN  /\ Keys(results') = Keys(results) \cup {R \o ExecutionErrorSuffix}
              /\ DictGet(results', R \o ExecutionErrorSuffix)
                     = <<"Rule execution failed with an internal error.">>
              /\ HasKey(results', R) <=> HasKey(results, R)
              /\ \A key \in Keys(results) \ {R \o ExecutionErrorSuffix} :
                     DictGet(results', key) = DictGet(results, key)
              /\ total_findings' = total_findings + 1]_vars

\* A rule has just raised, and its synthetic finding is in the results.
C2_Witness ==
    /\ pc = "execute"
    /\ idx > 0
    /\ all_rules[idx].body = "raise"
    /\ HasKey(results, all_rules[idx].name \o ExecutionErrorSuffix)
    /\ ~HasKey(results, all_rules[idx].name)

\* What a rule of the model returns when it does not raise.
Output(rule_func) == IF rule_func.body = "two" THEN <<"Finding 1", "Finding 2">> ELSE <<>>

RECURSIVE ExpectedTotal(_)
ExpectedTotal(n) ==
    IF n = 0 THEN 0
    ELSE ExpectedTotal(n - 1)
         + (IF all_rules[n].body = "raise" THEN 1 ELSE Len(Output(all_rules[n])))

\* C3: for every rule R that has returned without raising: a non-empty output
\* is stored unchanged as findings[R] and its length is added to
\* total_findings; with an empty output R is no key of findings and adds
\* nothing to the total.
C3_Aggregation ==
    /\ \A i \in 1..idx :
          all_rules[i].body # "raise" =>
              IF Output(all_rules[i]) # <<>>
              THEN /\ HasKey(results, all_rules[i].name)
                   /\ DictGet(results, all_rules[i].name) = Output(all_rules[i])
              ELSE ~HasKey(results, all_rules[i].name)
    /\ total_findings = ExpectedTotal(idx)

AllStages == <<"access", "syntax", "structural">>

\* parse_coco is over: it has raised or returned the document.
ParseOver == pc \in {"raised", "discover", "execute", "done"}

Readable == source.access = "ok"
ValidJson == source.text.valid
SchemaValid == COCODataErrors(source.text.tree) = <<>>

\* C4: when validation fails, run_scan raises the validator's own error
\* (FileAccessError or InvalidFormatError), has invoked no rule and returns no
\* ScanResult; a rule is only ever invoked on a source that passed validation.
C4_ValidationFailureAborts ==
    /\ pc = "raised" =>
          /\ outcome.kind = "raise"
          /\ outcome.exc.type =
                 (IF Readable THEN "InvalidFormatError" ELSE "FileAccessError")
          /\ calls = <<>>
          /\ all_rules = <<>>
          /\ data = NoData
    /\ (ParseOver /\ ~(Readable /\ ValidJson /\ SchemaValid)) =>
          /\ pc = "raised"
          /\ outcome.kind = "raise"
    /\ calls # <<>> =>
          /\ Readable /\ ValidJson /\ SchemaValid
          /\ data # NoData
          /\ stages = AllStages

\* Validation has failed in a module that registers rules, none of which ran.
C4_Witness ==
    /\ pc = "raised"
    /\ outcome.exc.type = "InvalidFormatError"
    /\ RegisteredRules # {}
    /\ calls = <<>>

\* C5: parse_coco runs access, syntax, structure in this order and reports the
\* earliest stage that fails: an unreadable source gives FileAccessError
\* whatever its content, a readable text that is no JSON gives
\* InvalidFormatError with its line and column, JSON that violates the schema
\* gives InvalidFormatError, no stage runs after one that failed, and a
\* document exists only when all three stages passed.
C5_StageOrder ==
    /\ Len(stages) <= 3
    /\ \A i \in 1..Len(stages) : stages[i] = AllStages[i]
    /\ ParseOver =>
          IF ~Readable
          THEN /\ pc = "raised"
               /\ outcome.exc.type = "FileAccessError"
               /\ stages = <<"access">>
          ELSE IF ~ValidJson
          THEN /\ pc = "raised"
               /\ outcome.exc.type = "InvalidFormatError"
               /\ outcome.exc.detail.stage = "syntax"
               /\ outcome.exc.detail.lineno = source.text.lineno
               /\ outcome.exc.detail.colno = source.text.colno
               /\ stages = <<"access", "syntax">>
          ELSE IF ~SchemaValid
          THEN /\ pc = "raised"
               /\ outcome.exc.type = "InvalidFormatError"
               /\ outcome.exc.detail.stage = "structural"
               /\ stages = AllStages
          ELSE /\ pc # "raised"
               /\ data # NoData
               /\ stages = AllStages
    /\ data # NoData => /\ stages = AllStages
                        /\ Readable /\ ValidJson /\ SchemaValid

\* A file that cannot be decoded is refused at the access stage although its
\* content is a valid document.
C5_Witness ==
    /\ pc = "raised"
    /\ source.access = "UnicodeDecodeError"
    /\ ValidJson /\ SchemaValid
    /\ outcome.exc.type = "FileAccessError"
    /\ stages = <<"access">>

\* The records of one list of the raw input, when the input has such a list.
RawItems(list) ==
    LET tree == source.text.tree
    IN  IF IsObj(tree) /\ list \in DOMAIN tree.v /\ IsArr(tree.v[list])
        THEN {tree.v[list].v[i] : i \in 1..Len(tree.v[list].v)}
        ELSE {}

HasNum(item, field) ==
    IsObj(item) /\ field \in DOMAIN item.v /\ IsNum(item.v[field])

\* A raw bbox that is not 4 numbers, or whose width or height is negative.
RawBboxViolates(item) ==
    /\ IsObj(item)
    /\ "bbox" \in DOMAIN item.v
    /\ IsArr(item.v["bbox"])
    /\ LET b == item.v["bbox"].v
       IN  \/ Len(b) # 4
           \/ /\ \A i \in 1..4 : IsNum(b[i])
              /\ (b[3].v < 0 \/ b[4].v < 0)

\* The raw input breaks one of the value constraints of images and annotations.
RawViolatesConstraint ==
    \/ \E im \in RawItems("images") :
          \/ HasNum(im, "width") /\ ~(im.v["width"].v > 0)
          \/ HasNum(im, "height") /\ ~(im.v["height"].v > 0)
    \/ \E an \in RawItems("annotations") :
          \/ RawBboxViolates(an)
          \/ HasNum(an, "area") /\ ~(an.v["area"].v >= 0)
          \/ HasNum(an, "iscrowd") /\ an.v["iscrowd"].v \notin {0, 1}

DocumentConstraints(d) ==
    /\ \A i \in 1..Len(d.images) : d.images[i].width > 0 /\ d.images[i].height > 0
    /\ \A i \in 1..Len(d.annotations) :
          LET an == d.annotations[i]
          IN  /\ Len(an.bbox) = 4
              /\ an.bbox[3] >= 0
              /\ an.bbox[4] >= 0
              /\ an.area >= 0
              /\ an.iscrowd \in {0, 1}

UndeclaredKeys(item, declared) ==
    IF IsObj(item) THEN DOMAIN item.v \ declared ELSE {}

\* The raw input has a key the schema does not declare, outside info.
RawHasUnknownField ==
    \/ UndeclaredKeys(source.text.tree, COCODataFields) # {}
    \/ \E x \in RawItems("licenses") : UndeclaredKeys(x, COCOLicenseFields) # {}
    \/ \E x \in RawItems("images") : UndeclaredKeys(x, COCOImageFields) # {}
    \/ \E x \in RawItems("annotations") : UndeclaredKeys(x, COCOAnnotationFields) # {}
    \/ \E x \in RawItems("categories") : UndeclaredKeys(x, COCOCategoryFields) # {}

\* C7: an input with a key the schema does not declare, at the top level or in
\* a license, image, annotation or category, fails validation with
\* InvalidFormatError; undeclared keys of info are accepted and kept, with
\* their values, in the document.
C7_UnknownFields ==
    /\ (ParseOver /\ Readable /\ ValidJson /\ RawHasUnknownField) =>
          /\ pc = "raised"
          /\ outcome.exc.type = "InvalidFormatError"
    /\ data # NoData =>
          LET info == source.text.tree.v["info"].v
          IN  /\ DOMAIN data.info.extra = DOMAIN info \ COCOInfoFields
              /\ \A n \in DOMAIN data.info.extra : data.info.extra[n] = info[n]

\* A document whose info carries an undeclared key has been accepted with it.
C7_Witness ==
    /\ data # NoData
    /\ "note" \in DOMAIN data.info.extra
    /\ data.info.extra["note"] = JStr("kept")

\* C8: with no rule registered, run_scan on a valid source still returns a
\* ScanResult: total_findings 0, findings empty, data the validated document.
C8_EmptyRegistry ==
    RegisteredRules = {} =>
        /\ pc = "done" =>
              /\ outcome.kind = "return"
              /\ outcome.value.total_findings = 0
              /\ outcome.value.findings = <<>>
              /\ outcome.value.data # NoData
              /\ outcome.value.data = data
        /\ (ParseOver /\ Readable /\ ValidJson /\ SchemaValid) => pc # "raised"

\* A scan with no rule registered has returned.
C8_Witness ==
    /\ pc = "done"
    /\ RegisteredRules = {}
    /\ outcome.kind = "return"

\* C9 as stated: the keys of findings of every ScanResult are in ascending
\* order of the key strings.
C9_KeysSorted ==
    pc = "done" =>
        \A i \in 1..(Len(outcome.value.findings) - 1) :
            StrLess(outcome.value.findings[i].key, outcome.value.findings[i + 1].key)

\* A rule that raises and whose name is a proper prefix of the name of another
\* registered rule.
RaisingPrefix ==
    \E r, o \in RegisteredRules :
        /\ r.body = "raise"
        /\ r.name # o.name
        /\ StartsWith(o.name, r.name)

\* C9, amended: the keys of findings of every ScanResult are in ascending
\* order of the key strings, provided no rule that raises has a name that is a
\* proper prefix of the name of another registered rule.
C9_KeysSortedUnlessPrefix ==
    (pc = "done" /\ ~RaisingPrefix) =>
        \A i \in 1..(Len(outcome.value.findings) - 1) :
            StrLess(outcome.value.findings[i].key, outcome.value.findings[i + 1].key)

\* A ScanResult with the key of a rule that raised and the key of a rule that
\* returned findings, none a prefix of the other.
C9_Witness ==
    /\ pc = "done"
    /\ ~RaisingPrefix
    /\ Len(outcome.value.findings) >= 2
    /\ \E r \in RegisteredRules :
          r.body = "raise" /\ HasKey(outcome.value.findings, r.name \o ExecutionErrorSuffix)
    /\ \E r \in RegisteredRules :
          r.body = "two" /\ HasKey(outcome.value.findings, r.name)

\* C10: get_all_rules returns exactly the functions of the rules module named
\* check_..., each once, in ascending order of their names, which makes it
\* the same sequence at every call; run_scan invokes the rules in that order.
C10_RegistryOrder ==
    pc \in {"execute", "done"} =>
        /\ {all_rules[i] : i \in 1..Len(all_rules)} = RegisteredRules
        /\ Len(all_rules) = Cardinality(RegisteredRules)
        /\ \A i, j \in 1..Len(all_rules) :
              i < j => StrLess(all_rules[i].name, all_rules[j].name)
        /\ calls = [i \in 1..idx |-> all_rules[i].name]

\* A scan has invoked three rules, one after the other in the order of their names.
C10_Witness ==
    /\ pc = "done"
    /\ Len(all_rules) >= 3
    /\ Len(calls) = Len(all_rules)
    /\ \A i \in 1..(Len(calls) - 1) : StrLess(calls[i], calls[i + 1])

\* What parse_coco raises for a source, from the source alone.
ExpectedError(src) ==
    IF src.access # "ok"
    THEN FileAccessError(
             CASE src.access = "FileNotFoundError" -> "does not exist"
               [] src.access = "OSError" -> "OS-level error"
               [] OTHER -> "unexpected error")
    ELSE IF ~src.text.valid
    THEN InvalidFormatError([stage |-> "syntax", lineno |-> src.text.lineno,
                             colno |-> src.text.colno])
    ELSE InvalidFormatError([stage |-> "structural",
                             message |-> error_summary(COCODataErrors(src.text.tree))])

\* The results and the total of a scan that starts from nothing and runs the
\* first n rules of a registry on a document.
RECURSIVE ScanFold(_, _, _)
ScanFold(rule_list, d, n) ==
    IF n = 0 THEN [results |-> <<>>, total_findings |-> 0]
    ELSE LET before == ScanFold(rule_list, d, n - 1)
         IN  Aggregate(before.results, before.total_findings, rule_list[n].name,
                       Invoke(rule_list[n], d))

\* What run_scan gives its caller, from the rules module and the source alone.
ExpectedOutcome(mod, src) ==
    IF src.access = "ok" /\ src.text.valid /\ COCODataErrors(src.text.tree) = <<>>
    THEN LET d == BuildCOCOData(src.text.tree)
             rule_list == get_all_rules(mod)
             folded == ScanFold(rule_list, d, Len(rule_list))
         IN  Return([data |-> d, findings |-> folded.results,
                     total_findings |-> folded.total_findings])
    ELSE Raise(ExpectedError(src))

\* C11: what a scan returns or raises is determined by the rules module and
\* the input alone: the same document or the same error, the same findings
\* (keys, finding strings, order) and the same total, whatever scans ran
\* before it in the process and however they ended; and a scan begins with
\* nothing left of the scans before it.
C11_Stateless ==
    /\ pc \in {"done", "raised"} => outcome = ExpectedOutcome(module, source)
    /\ pc \in {"idle", "read", "parse", "validate", "discover"} =>
          /\ results = <<>>
          /\ total_findings = 0
          /\ calls = <<>>
          /\ all_rules = <<>>
    /\ pc \in {"idle", "read", "parse", "validate"} => data = NoData

\* A scan with findings and a rule that raised is over, in a process whose
\* scan before it returned a result, with rules that raised in it as well.
C11_Witness ==
    /\ pc = "done"
    /\ previous = "return"
    /\ outcome.value.total_findings > 1
    /\ \E m \in RegisteredRules : m.body = "raise"

\* C13: every document validation accepts survives the round trip: its JSON
\* text validates again, and into a document equal to it, the fields of info
\* outside the declared ones included.
C13_RoundTrip ==
    data # NoData =>
        /\ model_validate(model_dump_json(data)).ok
        /\ model_validate(model_dump_json(data)).value = data

StructuralFailure == pc = "raised" /\ Readable /\ ValidJson

\* The source is the well-formed document with the one edit e.
SingleFault(e) == source.text.tree = ApplyEdit(BaseDoc, e)

\* The path of the field an edit touches: the names and the list index that
\* lead to it, joined by " -> ".
FieldPath(e) ==
    IF e.at = "top" THEN e.field
    ELSE IF e.at = "info" THEN "info -> " \o e.field
    ELSE e.at \o " -> 0 -> " \o e.field

\* The error reports one location, and it is the first of the errors of the text.
ReportsFirstError ==
    LET errors == COCODataErrors(source.text.tree)
        message == outcome.exc.detail.message
    IN  /\ Len(message) = 4
        /\ message[1] = "Data validation failed at '"
        /\ message[2] = Join(" -> ", [i \in 1..Len(errors[1].loc) |-> LocStr(errors[1].loc[i])])
        /\ message[3] = "': "
        /\ message[4] = Msg(errors[1].type)

FindingsOf(obj) ==
    [i \in 1..Len(obj.v) |->
        [key |-> obj.v[i].key,
         val |-> [j \in 1..Len(obj.v[i].val.v) |-> obj.v[i].val.v[j].v]]]

\* The document of the file that was scanned.
ScannedDocument == source.text.tree.v

\* C15: the report format_json makes of a returned ScanResult has, in
\* summary, the result's total_findings and the numbers of images,
\* annotations and categories of the scanned document, and in findings every
\* rule name of the result with all of its findings, in order, nothing cut.
C15_FormatJsonLossless ==
    (pc = "done" /\ outcome.kind = "return") =>
        LET report == format_json(outcome.value).v
            summary == report.summary.v
        IN  /\ DOMAIN report = {"summary", "findings"}
            /\ summary.total_findings = JNum(outcome.value.total_findings)
            /\ summary.images_scanned = JNum(Len(ScannedDocument.images.v))
            /\ summary.annotations_scanned = JNum(Len(ScannedDocument.annotations.v))
            /\ summary.categories_found = JNum(Len(ScannedDocument.categories.v))
            /\ FindingsOf(report.findings) = outcome.value.findings
            /\ \A i \in 1..Len(all_rules) :
                   LET call == Invoke(all_rules[i], data)
                   IN  (~call.raised /\ call.value # <<>>) =>
                           DictGet(FindingsOf(report.findings), all_rules[i].name)
                               = call.value

\* A result with a rule of two findings and a rule of one has been returned.
C15_Witness ==
    /\ pc = "done"
    /\ outcome.kind = "return"
    /\ outcome.value.total_findings = 3
    /\ Len(outcome.value.findings) = 2
    /\ Len(outcome.value.findings[1].val) = 2
    /\ Len(format_json(outcome.value).v.findings.v[1].val.v) = 2

\* A segmentation that holds something: a list with an element, an object
\* with a key.
NonEmptySegmentation(segmentation) ==
    IF IsArr(segmentation) THEN segmentation.v # <<>>
    ELSE DOMAIN segmentation.v # {}

\* The ids of the annotations a scan has flagged for a mismatched area.
FlaggedForArea ==
    IF HasKey(results, Name_check_attribute_area_bbox_mismatch)
    THEN LET findings == DictGet(results, Name_check_attribute_area_bbox_mismatch)
         IN  {findings[j].id : j \in 1..Len(findings)}
    ELSE {}

\* C16: the area rule flags no annotation with a non-empty segmentation, be it
\* a list of polygons or a run-length-encoding object, whatever its bbox and
\* its declared area.
C16_OnlyEmptySegmentation ==
    (pc = "done" /\ outcome.kind = "return") =>
        \A i \in 1..Len(data.annotations) :
            NonEmptySegmentation(data.annotations[i].segmentation) =>
                data.annotations[i].id \notin FlaggedForArea

\* What a finished scan holds for the class-distribution rule.
ImbalanceFindings ==
    IF HasKey(results, Name_check_statistical_class_distribution_imbalance)
    THEN DictGet(results, Name_check_statistical_class_distribution_imbalance)
    ELSE <<>>

\* The number of annotations of d with the category id cat_id.
AnnotationCount(d, cat_id) ==
    Cardinality({i \in 1..Len(d.annotations) : d.annotations[i].category_id = cat_id})

\* count < max(10, 0.1% of total)
Rare(count, total) == count < 10 \/ count * 1000 < total

\* The positions of the categories of d with fewer annotations than the threshold.
RareCategories(d) ==
    {c \in 1..Len(d.categories) :
        Rare(AnnotationCount(d, d.categories[c].id), Len(d.annotations))}

\* C17: on a document of 50 annotations or more the class-distribution rule
\* flags every category with fewer annotations than max(10, 0.1% of the
\* total), with one finding for each, and no category with as many or more.
C17_FlagsRareCategories ==
    (pc = "done" /\ outcome.kind = "return" /\ Len(data.annotations) >= 50) =>
        /\ \A c \in 1..Len(data.categories) :
               c \in RareCategories(data) <=>
                   \E j \in 1..Len(ImbalanceFindings) :
                       ImbalanceFindings[j].name = data.categories[c].name
        /\ Len(ImbalanceFindings) = Cardinality(RareCategories(data))

\* The document d without the annotations whose category_id is the id of no
\* category.
WithoutUnmatched(d) ==
    LET matched(ann) == \E c \in 1..Len(d.categories) : d.categories[c].id = ann.category_id
    IN  [d EXCEPT !.annotations = SelectSeq(d.annotations, matched)]

\* Unmatched annotations leave no trace of their own in a finished scan: the
\* rule has not raised and each of its findings is about a category of the
\* document.
NoFindingOfTheirOwn ==
    /\ ~HasKey(results, ErrorKey(Name_check_statistical_class_distribution_imbalance))
    /\ \A j \in 1..Len(ImbalanceFindings) :
           \E c \in 1..Len(data.categories) :
               /\ data.categories[c].name = ImbalanceFindings[j].name
               /\ AnnotationCount(data, data.categories[c].id) = ImbalanceFindings[j].count

\* The findings about the categories of d that occur in its annotations, in
\* the order they first occur, when `total` annotations are taken to exist.
FindingsForTotal(d, total) ==
    LET category_counts ==
            Counter([i \in 1..Len(d.annotations) |-> d.annotations[i].category_id])
        flagged(item) == Rare(item.val, total)
        finding(item) ==
            [text |-> "Severe class imbalance: Category '{name}' has only {count} annotations.",
             name |-> ById(d.categories, item.key).name, count |-> item.val]
    IN  IF total < 50 THEN <<>>
        ELSE LET found == SelectSeq(category_counts, flagged)
             IN  [n \in 1..Len(found) |-> finding(found[n])]

\* C18 as stated: annotations of no category give no finding of their own,
\* never make the class-distribution rule raise, and the rule's findings are
\* those it gives on the document without these annotations.
C18_UnmatchedIgnored ==
    (pc = "done" /\ outcome.kind = "return") =>
        /\ NoFindingOfTheirOwn
        /\ ImbalanceFindings =
               check_statistical_class_distribution_imbalance(WithoutUnmatched(data))

\* C18, amended: annotations of no category give no finding of their own and
\* never make the rule raise, but they count in the total: the rule's findings
\* are those about the document without these annotations for the total
\* number of annotations of the document with them.
C18_UnmatchedCountInTotal ==
    (pc = "done" /\ outcome.kind = "return") =>
        /\ NoFindingOfTheirOwn
        /\ ImbalanceFindings =
               FindingsForTotal(WithoutUnmatched(data), Len(data.annotations))

\* A scan of 50 annotations, 3 of them of no category, has flagged a category:
\* without the 3 the rule would have been silent.
C18_Witness ==
    /\ pc = "done"
    /\ outcome.kind = "return"
    /\ Len(data.annotations) = 50
    /\ Len(WithoutUnmatched(data).annotations) = 47
    /\ Len(ImbalanceFindings) = 1

\* C19: a scan of a document of fewer than 50 annotations holds no finding of
\* the class-distribution rule, however the annotations are spread over the
\* categories.
C19_SilentBelowFifty ==
    (pc = "done" /\ outcome.kind = "return" /\ Len(data.annotations) < 50) =>
        /\ ~HasKey(results, Name_check_statistical_class_distribution_imbalance)
        /\ \A i \in 1..Len(all_rules) :
               all_rules[i].name = Name_check_statistical_class_distribution_imbalance =>
                   Invoke(all_rules[i], data).value = <<>>

\* A scan of 49 annotations is over: one category has 1 of them, another 45.
C19_Witness ==
    /\ pc = "done"
    /\ outcome.kind = "return"
    /\ Len(data.annotations) = 49
    /\ AnnotationCount(data, 2) = 1
    /\ AnnotationCount(data, 1) = 45
    /\ ImbalanceFindings = <<>>

\* What a finished scan holds under the name of a rule.
FindingsUnder(rule_name) ==
    IF HasKey(results, rule_name) THEN DictGet(results, rule_name) ELSE <<>>

\* The positions of the annotations of d whose image_id is the id of no image,
\* and of those whose category_id is the id of no category.
MissingImage(d) ==
    {i \in 1..Len(d.annotations) :
        \A m \in 1..Len(d.images) : d.images[m].id # d.annotations[i].image_id}

MissingCategory(d) ==
    {i \in 1..Len(d.annotations) :
        \A c \in 1..Len(d.categories) : d.categories[c].id # d.annotations[i].category_id}

\* The k-th position of a set of positions, counted from the lowest.
Kth(positions, k) ==
    CHOOSE i \in positions : Cardinality({j \in positions : j <= i}) = k

\* C20: check_relation_unmatched_annotations gives one finding for each
\* annotation whose image_id is the id of no image, in the order of the
\* annotations, and none for the others; check_relation_unmatched_category
\* does the same with category_id and the ids of the categories.
C20_OneFindingPerOrphan ==
    (pc = "done" /\ outcome.kind = "return") =>
        LET by_image == FindingsUnder(Name_check_relation_unmatched_annotations)
            by_category == FindingsUnder(Name_check_relation_unmatched_category)
        IN  /\ Len(by_image) = Cardinality(MissingImage(data))
            /\ \A k \in 1..Len(by_image) :
                   LET ann == data.annotations[Kth(MissingImage(data), k)]
                   IN  /\ by_image[k].id = ann.id
                       /\ by_image[k].image_id = ann.image_id
            /\ Len(by_category) = Cardinality(MissingCategory(data))
            /\ \A k \in 1..Len(by_category) :
                   LET ann == data.annotations[Kth(MissingCategory(data), k)]
                   IN  /\ by_category[k].id = ann.id
                       /\ by_category[k].category_id = ann.category_id

\* A scan is over of a document of two annotations: both point to no image,
\* the second to no category either.
C20_Witness ==
    /\ pc = "done"
    /\ outcome.kind = "return"
    /\ Len(data.annotations) = 2
    /\ MissingImage(data) = {1, 2}
    /\ MissingCategory(data) = {2}
    /\ Len(FindingsUnder(Name_check_relation_unmatched_annotations)) = 2
    /\ FindingsUnder(Name_check_relation_unmatched_annotations)[2].id = data.annotations[2].id
    /\ Len(FindingsUnder(Name_check_relation_unmatched_category)) = 1

\* The positions of the images of d whose id is the image_id of no annotation.
Unannotated(d) ==
    {m \in 1..Len(d.images) :
        \A i \in 1..Len(d.annotations) : d.annotations[i].image_id # d.images[m].id}

\* C21: check_relation_images_without_annotations is silent on a document
\* without annotations, whatever its images; on a document with annotations
\* it gives one finding for each image no annotation points to, and none for
\* an image some annotation points to.
C21_ImagesWithoutAnnotations ==
    (pc = "done" /\ outcome.kind = "return") =>
        LET findings == FindingsUnder(Name.check_relation_images_without_annotations)
        IN  IF data.annotations = <<>> THEN findings = <<>>
            ELSE /\ Len(findings) = Cardinality(Unannotated(data))
                 /\ \A k \in 1..Len(findings) :
                        findings[k].id = data.images[Kth(Unannotated(data), k)].id

\* A scan is over of a document of two images and no annotation.
C21_Witness ==
    /\ pc = "done"
    /\ outcome.kind = "return"
    /\ data.annotations = <<>>
    /\ Len(data.images) = 2
    /\ Unannotated(data) = {1, 2}
    /\ ~HasKey(results, Name.check_relation_images_without_annotations)

\* The image an annotation of a scanned document lies on, when there is one.
ImageOf(ann) ==
    data.images[CHOOSE m \in 1..Len(data.images) : data.images[m].id = ann.image_id]

\* The positions of the annotations of the scanned document that resolve to an
\* image and cross one of its borders.
Outside ==
    {i \in 1..Len(data.annotations) \ MissingImage(data) :
        LET ann == data.annotations[i]
            x == ann.bbox[1]
            y == ann.bbox[2]
            width == ann.bbox[3]
            height == ann.bbox[4]
        IN  \/ x < 0
            \/ y < 0
            \/ x + width > ImageOf(ann).width
            \/ y + height > ImageOf(ann).height}

\* C22: check_geometry_bbox_out_of_bounds flags an annotation of an existing
\* image exactly when x < 0, y < 0, x + width > image.width or y + height >
\* image.height, a box ending on the border not being flagged, and reports
\* x2 = x + width and y2 = y + height; an annotation of no image gives no
\* finding and does not make the rule raise.
C22_OutOfBounds ==
    (pc = "done" /\ outcome.kind = "return") =>
        LET findings == FindingsUnder(Name.check_geometry_bbox_out_of_bounds)
        IN  /\ ~HasKey(results, ErrorKey(Name.check_geometry_bbox_out_of_bounds))
            /\ Len(findings) = Cardinality(Outside)
            /\ \A k \in 1..Len(findings) :
                   LET ann == data.annotations[Kth(Outside, k)]
                   IN  /\ findings[k].id = ann.id
                       /\ findings[k].x2 = ann.bbox[1] + ann.bbox[3]
                       /\ findings[k].y2 = ann.bbox[2] + ann.bbox[4]

\* A scan is over of a box that ends on the right and bottom borders of its
\* image and of a box that crosses the right border by one: the second alone
\* is flagged, with x2 = 9.
C22_Witness ==
    /\ pc = "done"
    /\ outcome.kind = "return"
    /\ Len(data.annotations) = 2
    /\ data.annotations[1].bbox = <<6, 4, 2, 2>>
    /\ data.annotations[2].bbox = <<7, 0, 2, 2>>
    /\ MissingImage(data) = {}
    /\ Len(FindingsUnder(Name.check_geometry_bbox_out_of_bounds)) = 1
    /\ FindingsUnder(Name.check_geometry_bbox_out_of_bounds)[1].id = 2
    /\ FindingsUnder(Name.check_geometry_bbox_out_of_bounds)[1].x2 = 9

\* The distinct spellings, among the categories of the scanned document, of
\* the names that are lower_name once lower-cased.
Spellings(lower_name) ==
    {data.categories[c].name : c \in {b \in 1..Len(data.categories) :
                                         Lower(data.categories[b].name) = lower_name}}

\* The lower-cased names of the scanned document with more than one spelling.
MixedCase ==
    {lower_name \in {Lower(data.categories[c].name) : c \in 1..Len(data.categories)} :
        Cardinality(Spellings(lower_name)) > 1}

\* C23: check_category_case_consistency gives one finding for each lower-cased
\* name with more than one spelling, listing its distinct spellings in sorted
\* order, and none for a name always spelled the same, however many
\* categories carry it.
C23_CaseConsistency ==
    (pc = "done" /\ outcome.kind = "return") =>
        LET findings == FindingsUnder(Name.check_category_case_consistency)
        IN  /\ Len(findings) = Cardinality(MixedCase)
            /\ {findings[k].lower_name : k \in 1..Len(findings)} = MixedCase
            /\ \A k \in 1..Len(findings) :
                   LET listed == findings[k].sorted_names
                   IN  /\ {listed[n] : n \in 1..Len(listed)} = Spellings(findings[k].lower_name)
                       /\ \A n \in 1..(Len(listed) - 1) : StrLess(listed[n], listed[n + 1])

\* A scan is over of the categories car, Car and bus: one finding, about car,
\* naming Car then car.
C23_Witness ==
    /\ pc = "done"
    /\ outcome.kind = "return"
    /\ [c \in 1..Len(data.categories) |-> data.categories[c].name]
           = <<Str.car, Str.Car, Str.bus>>
    /\ Len(FindingsUnder(Name.check_category_case_consistency)) = 1
    /\ FindingsUnder(Name.check_category_case_consistency)[1].lower_name = Str.car
    /\ FindingsUnder(Name.check_category_case_consistency)[1].sorted_names
           = <<Str.Car, Str.car>>

\* The number of categories of the scanned document with this name, with
\* this id.
Named(name) == Cardinality({c \in 1..Len(data.categories) : data.categories[c].name = name})

Identified(id) == Cardinality({c \in 1..Len(data.categories) : data.categories[c].id = id})

\* C24: check_category_duplicate_names gives one finding for each name that
\* more than one category carries, letter for letter, with the number of
\* categories that carry it, and none for a name carried once;
\* check_category_duplicate_ids does the same for the ids.
C24_Duplicates ==
    (pc = "done" /\ outcome.kind = "return") =>
        LET by_name == FindingsUnder(Name.check_category_duplicate_names)
            by_id == FindingsUnder(Name.check_category_duplicate_ids)
            names == {data.categories[c].name : c \in 1..Len(data.categories)}
            ids == {data.categories[c].id : c \in 1..Len(data.categories)}
        IN  /\ Len(by_name) = Cardinality({name \in names : Named(name) > 1})
            /\ {by_name[k].name : k \in 1..Len(by_name)} = {name \in names : Named(name) > 1}
            /\ \A k \in 1..Len(by_name) : by_name[k].count = Named(by_name[k].name)
            /\ Len(by_id) = Cardinality({id \in ids : Identified(id) > 1})
            /\ {by_id[k].cat_id : k \in 1..Len(by_id)} = {id \in ids : Identified(id) > 1}
            /\ \A k \in 1..Len(by_id) : by_id[k].count = Identified(by_id[k].cat_id)

\* A scan is over of the categories (1, car), (2, car), (1, Car): the name car
\* is reported with 2, the name Car is not; the id 1 is reported with 2, the
\* id 2 is not.
C24_Witness ==
    /\ pc = "done"
    /\ outcome.kind = "return"
    /\ [c \in 1..Len(data.categories) |-> <<data.categories[c].id, data.categories[c].name>>]
           = <<<<1, Str.car>>, <<2, Str.car>>, <<1, Str.Car>>>>
    /\ Len(FindingsUnder(Name.check_category_duplicate_names)) = 1
    /\ FindingsUnder(Name.check_category_duplicate_names)[1].name = Str.car
    /\ FindingsUnder(Name.check_category_duplicate_names)[1].count = 2
    /\ Len(FindingsUnder(Name.check_category_duplicate_ids)) = 1
    /\ FindingsUnder(Name.check_category_duplicate_ids)[1].cat_id = 1
    /\ FindingsUnder(Name.check_category_duplicate_ids)[1].count = 2

\* The positions of the annotations of the scanned document with a width and
\* a height above 0.
Measured ==
    {i \in 1..Len(data.annotations) :
        data.annotations[i].bbox[3] > 0 /\ data.annotations[i].bbox[4] > 0}

\* Every width of the scanned document is a finite number.
FiniteWidths == \A i \in 1..Len(data.annotations) : data.annotations[i].bbox[3] # Infinity

\* The measured annotations of the scanned document all have the same ratio.
EqualRatios ==
    \A i, j \in Measured :
        data.annotations[i].bbox[3] * data.annotations[j].bbox[4]
            = data.annotations[j].bbox[3] * data.annotations[i].bbox[4]

\* The positions of the measured annotations whose ratio is outside
\* [Q1 - 1.5 * IQR, Q3 + 1.5 * IQR], the quartiles taken over the ratios of
\* the measured annotations; all numbers over one denominator.
OutsideTypicalRange ==
    LET positions == SelectSeq([i \in 1..Len(data.annotations) |-> i],
                               LAMBDA i : i \in Measured)
        den == Lcm({data.annotations[i].bbox[4] : i \in Measured})
        ratio(i) == (data.annotations[i].bbox[3] * den) \div data.annotations[i].bbox[4]
        ratios == [n \in 1..Len(positions) |-> ratio(positions[n])]
        q1 == Percentile(ratios, 1)
        q3 == Percentile(ratios, 3)
    IN  {i \in Measured :
            \/ 8 * ratio(i) < 2 * q1 - 3 * (q3 - q1)
            \/ 8 * ratio(i) > 2 * q3 + 3 * (q3 - q1)}

\* C25: check_statistical_bbox_aspect_ratio_outliers is silent when no
\* annotation has a width and a height above 0; it never flags an annotation
\* without width or height and leaves it out of the quartiles; it flags the
\* others exactly when their ratio is outside [Q1 - 1.5 * IQR, Q3 + 1.5 * IQR];
\* and it flags nothing when the ratios are all equal.
C25_AspectRatioOutliers ==
    (pc = "done" /\ outcome.kind = "return") =>
        LET findings == FindingsUnder(Name.check_statistical_bbox_aspect_ratio_outliers)
            flagged == {findings[k].id : k \in 1..Len(findings)}
        IN  /\ Measured = {} => findings = <<>>
            /\ \A i \in 1..Len(data.annotations) :
                   i \notin Measured => data.annotations[i].id \notin flagged
            /\ FiniteWidths =>
                   /\ Len(findings) = Cardinality(OutsideTypicalRange)
                   /\ flagged = {data.annotations[i].id : i \in OutsideTypicalRange}
            /\ EqualRatios => findings = <<>>

\* The positions of the annotations of the scanned document without width or
\* without height.
ZeroArea ==
    {i \in 1..Len(data.annotations) :
        data.annotations[i].bbox[3] = 0 \/ data.annotations[i].bbox[4] = 0}

\* C26: check_geometry_zero_area_bboxes gives one finding, in annotation
\* order, for each annotation whose width is 0 or whose height is 0, a single
\* one when both are, and none for an annotation of positive width and
\* height, whether the image of the annotation exists or not.
C26_ZeroAreaBoxes ==
    (pc = "done" /\ outcome.kind = "return") =>
        LET findings == FindingsUnder(Name.check_geometry_zero_area_bboxes)
        IN  /\ Len(findings) = Cardinality(ZeroArea)
            /\ \A k \in 1..Len(findings) :
                   LET ann == data.annotations[Kth(ZeroArea, k)]
                   IN  /\ findings[k].id = ann.id
                       /\ findings[k].w = ann.bbox[3]
                       /\ findings[k].h = ann.bbox[4]

\* A scan is over of a box without width on the missing image 9 and of a box
\* without width nor height on image 1: two findings, in that order.
C26_Witness ==
    /\ pc = "done"
    /\ outcome.kind = "return"
    /\ Len(data.annotations) = 2
    /\ data.annotations[1].image_id = 9
    /\ data.annotations[1].bbox = <<1, 1, 0, 2>>
    /\ data.annotations[2].image_id = 1
    /\ data.annotations[2].bbox = <<1, 1, 0, 0>>
    /\ Len(FindingsUnder(Name.check_geometry_zero_area_bboxes)) = 2
    /\ FindingsUnder(Name.check_geometry_zero_area_bboxes)[1].id = 1
    /\ FindingsUnder(Name.check_geometry_zero_area_bboxes)[2].id = 2

\* |bbox_area - area| > atol + 1e-3 * |area|, with atol = 1e-8, both sides
\* multiplied by 10^8; the area of a box of infinite width exceeds any
\* tolerance around a finite declared area.
ExceedsTolerance(bbox_area, area) ==
    IF bbox_area = Infinity THEN area # Infinity
    ELSE Abs(bbox_area - area) * 100000000 > 1 + 100000 * Abs(area)

\* C27: an annotation with an empty segmentation is flagged by
\* check_attribute_area_bbox_mismatch exactly when |width * height - area|
\* exceeds atol + 1e-3 * |area|, the tolerance being relative to the declared
\* area: a declared area of 0 is not flagged over a box of area 0 and is
\* flagged over a box of positive area.
C27_RelativeToDeclaredArea ==
    (pc = "done" /\ outcome.kind = "return") =>
        \A i \in 1..Len(data.annotations) :
            LET ann == data.annotations[i]
            IN  (IsArr(ann.segmentation) /\ ~NonEmptySegmentation(ann.segmentation)) =>
                    (ann.id \in FlaggedForArea
                         <=> ExceedsTolerance(ann.bbox[3] * ann.bbox[4], ann.area))

\* A scan is over of a box of area 999 declaring 1000, which is not flagged,
\* and of a box of area 1000 declaring 999, which is.
C27_Witness ==
    /\ pc = "done"
    /\ outcome.kind = "return"
    /\ Len(data.annotations) = 2
    /\ data.annotations[1].bbox[3] * data.annotations[1].bbox[4] = 999
    /\ data.annotations[1].area = 1000
    /\ data.annotations[2].bbox[3] * data.annotations[2].bbox[4] = 1000
    /\ data.annotations[2].area = 999
    /\ FlaggedForArea = {2}

\* The sum of the lengths of the lists a dict of lists holds.
RECURSIVE SumOfLengths(_)
SumOfLengths(d) ==
    IF d = <<>> THEN 0 ELSE Len(d[1].val) + SumOfLengths(Tail(d))

\* C28: in every ScanResult run_scan returns, whatever the rules of the
\* registry do, total_findings is the sum of the lengths of the lists of
\* findings, and no key of findings holds an empty list.
C28_TotalIsSumOfLengths ==
    (pc = "done" /\ outcome.kind = "return") =>
        /\ outcome.value.total_findings = SumOfLengths(outcome.value.findings)
        /\ \A i \in 1..Len(outcome.value.findings) : outcome.value.findings[i].val # <<>>

\* The scan command has ended after run_scan returned a ScanResult with
\* findings, for a report format the command supports.
ReportedFindings ==
    /\ pc = "exited"
    /\ outcome.kind = "return"
    /\ outcome.value.total_findings > 0
    /\ command.output_format \in SUPPORTED_FORMATS

\* C29: for every ScanResult with findings that run_scan returns, the keys
\* '<rule_name>_execution_error' of rules that raised included, the scan
\* command renders its report without raising: every key of findings has its
\* node in the tree, the report file is written when --out is given, and the
\* command exits with code 1 through its regular exit, not through its handler
\* of unexpected errors.
C29_ReportRendered ==
    ReportedFindings =>
        /\ command.panel # "Critical Error"
        /\ command.exception = "Exit"
        /\ command.exit_code = 1
        /\ Len(command.report.tree) = Len(outcome.value.findings)
        /\ \A key \in Keys(outcome.value.findings) :
              \E i \in 1..Len(command.report.tree) :
                  /\ command.report.tree[i].label = format_rule_name(key)
                  /\ command.report.tree[i].count = Len(DictGet(outcome.value.findings, key))
        /\ command.output_file => command.file = format_json(outcome.value)

\* The positions of the annotations of the scanned document that
\* check_geometry_bbox_out_of_bounds skips.
Skipped ==
    {i \in 1..Len(data.annotations) : ~in_images_by_id(data, data.annotations[i])}

\* C30: in one scan every annotation is either evaluated by
\* check_geometry_bbox_out_of_bounds or reported by
\* check_relation_unmatched_annotations, never both and never neither: the
\* annotations the first rule skips are, in their order, the ones the second
\* rule reports, and neither rule fails.
C30_SkippedAreReported ==
    (pc = "done" /\ outcome.kind = "return") =>
        LET reported == FindingsUnder(Name_check_relation_unmatched_annotations)
        IN  /\ ~HasKey(results, ErrorKey(Name.check_geometry_bbox_out_of_bounds))
            /\ ~HasKey(results, ErrorKey(Name_check_relation_unmatched_annotations))
            /\ Len(reported) = Cardinality(Skipped)
            /\ \A k \in 1..Len(reported) :
                   LET ann == data.annotations[Kth(Skipped, k)]
                   IN  /\ reported[k].id = ann.id
                       /\ reported[k].image_id = ann.image_id

\* A scan is over of a document with the image 2 alone and two annotations:
\* the first lies on image 2 and is evaluated, the second points to no image,
\* is skipped and is the one reported.
C30_Witness ==
    /\ pc = "done"
    /\ outcome.kind = "return"
    /\ Len(data.images) = 1
    /\ data.images[1].id = 2
    /\ Len(data.annotations) = 2
    /\ data.annotations[1].image_id = 2
    /\ Skipped = {2}
    /\ Len(FindingsUnder(Name_check_relation_unmatched_annotations)) = 1
    /\ FindingsUnder(Name_check_relation_unmatched_annotations)[1].id = data.annotations[2].id

====
